---------------------------- MODULE Spec2Model ----------------------------
(***************************************************************************)
(* Lead stage transition state machine and engagement scoring engine of    *)
(* the lead-nurturing service, modelled over the relational store they     *)
(* share (tables leads, engagement_events, stage_transitions, lead_scores).*)
(*                                                                         *)
(* Every engine call is an async function: it runs from one await to the   *)
(* next without interruption, and other calls may run between two awaits.  *)
(* A process of the model is one in-flight call; one action is the code    *)
(* between two awaits (one store round trip and the synchronous code       *)
(* after it).                                                              *)
(***************************************************************************)
EXTENDS Integers, Sequences, FiniteSets, TLC

(***************************************************************************)
(* Bounds of the model.                                                    *)
(***************************************************************************)
\* number of engine calls started in one behaviour
MaxOps == 2
\* number of store round trips that fail in one behaviour
MaxFailures == 1
\* longest leadIds array handed to batchAutoProgress
MaxBatch == 2
\* wall-clock time of the behaviour, in hours since the epoch of the model
Now == 400

Procs == {1, 2}

\* ids of the rows of table leads, and one id that is in no row
Leads == {"L1", "L2"}
NoLead == "L0"
LeadIds == Leads \cup {NoLead}

(***************************************************************************)
(* Stage graph (StageTransitionEngine constructor).                        *)
(***************************************************************************)
Stages == {"User", "Engaged_Lead", "Qualified_Lead", "Customer"}

\* a value that is no stage, as a caller may pass one
BogusStage == "Prospect"
StageInputs == Stages \cup {BogusStage}

Range(s) == {s[i] : i \in DOMAIN s}

validTransitions ==
    [User           |-> <<"Engaged_Lead">>,
     Engaged_Lead   |-> <<"Qualified_Lead", "User">>,
     Qualified_Lead |-> <<"Customer", "Engaged_Lead">>,
     Customer       |-> <<>>]

\* a property name every object inherits from Object.prototype: looked up in
\* validTransitions it yields a function, which is truthy and no array
InheritedKey == "constructor"

\* what isValidTransition returns; with fromStage an inherited property name
\* it returns nothing: calling includes on the value throws a TypeError
isValidTransition(fromStage, toStage) ==
    IF fromStage \notin DOMAIN validTransitions
    THEN FALSE
    ELSE toStage \in Range(validTransitions[fromStage])

getNextStages(currentStage) ==
    IF currentStage \in DOMAIN validTransitions
    THEN validTransitions[currentStage]
    ELSE <<>>

(***************************************************************************)
(* Progression rules.  A condition that a rule does not configure is       *)
(* absent from the record (undefined in the source).                       *)
(***************************************************************************)
\* default rules whose rule for Engaged_Lead looks back three days only
defaultRulesThreeDays ==
    [User           |-> [to |-> "Engaged_Lead",
                         conditions |-> [min_engagement_score |-> 50,
                                         min_events |-> 3,
                                         time_window_hours |-> 168]],
     Engaged_Lead   |-> [to |-> "Qualified_Lead",
                         conditions |-> [min_engagement_score |-> 150,
                                         min_events |-> 8,
                                         time_window_hours |-> 72]],
     Qualified_Lead |-> [to |-> "Customer",
                         conditions |-> [min_engagement_score |-> 300,
                                         conversion_event |-> TRUE]]]

defaultRules ==
    [User           |-> [to |-> "Engaged_Lead",
                         conditions |-> [min_engagement_score |-> 50,
                                         min_events |-> 3,
                                         time_window_hours |-> 168]],
     Engaged_Lead   |-> [to |-> "Qualified_Lead",
                         conditions |-> [min_engagement_score |-> 150,
                                         min_events |-> 8,
                                         time_window_hours |-> 336]],
     Qualified_Lead |-> [to |-> "Customer",
                         conditions |-> [min_engagement_score |-> 300,
                                         conversion_event |-> TRUE]]]

(***************************************************************************)
(* Engagement events.  metadata is flattened to the two keys the engines   *)
(* read; timestamps are whole hours.                                       *)
(***************************************************************************)
EventTypes == {"login", "email_open", "email_click", "whatsapp_reply",
               "chatbot_interaction"}

Event(type, channel, ts, hv, conv) ==
    [event_type |-> type, channel |-> channel, timestamp |-> ts,
     high_value_action |-> hv, conversion |-> conv, score_impact |-> 0]

(***************************************************************************)
(* Scoring rules.  Decimal coefficients are kept in hundredths.            *)
(***************************************************************************)
Scale == 100

defaultScoringRules ==
    [login_points                |-> 10,
     email_open_points           |-> 5,
     email_click_points          |-> 15,
     whatsapp_reply_points       |-> 20,
     chatbot_interaction_points  |-> 10,
     email_engagement_multiplier |-> 100,
     repeat_engagement_decay     |-> 80,
     time_decay_factor           |-> 95,
     engaged_lead_threshold      |-> 50,
     qualified_lead_threshold    |-> 150,
     customer_threshold          |-> 300,
     high_value_action_bonus     |-> 50,
     first_time_bonus            |-> 120,
     consecutive_days_bonus      |-> 10,
     recent_activity_window      |-> 24,
     engagement_window           |-> 168,
     decay_start_hours           |-> 72]

\* getRecommendedStage with strict comparisons
getRecommendedStageStrict(score, scoringRules) ==
    IF score > scoringRules.customer_threshold THEN "Customer"
    ELSE IF score > scoringRules.qualified_lead_threshold THEN "Qualified_Lead"
    ELSE IF score > scoringRules.engaged_lead_threshold THEN "Engaged_Lead"
    ELSE "User"

getRecommendedStage(score, scoringRules) ==
    IF score >= scoringRules.customer_threshold THEN "Customer"
    ELSE IF score >= scoringRules.qualified_lead_threshold THEN "Qualified_Lead"
    ELSE IF score >= scoringRules.engaged_lead_threshold THEN "Engaged_Lead"
    ELSE "User"

\* the scoring_rules column of the one row of product_configs
productScoringRules == [login_points |-> 20, repeat_engagement_decay |-> 50]

ConfiguredProduct == "P1"
ProductIds == {"undefined", ConfiguredProduct}

\* { ...defaults, ...overrides }
Merge(defaults, overrides) ==
    [k \in DOMAIN defaults \cup DOMAIN overrides |->
        IF k \in DOMAIN overrides THEN overrides[k] ELSE defaults[k]]

\* getScoringRules past its cache: the scoring_rules of the product's row merged
\* over the defaults, the defaults for a product without a row
getScoringRules(rows, productId) ==
    IF productId \in DOMAIN rows
    THEN Merge(defaultScoringRules, rows[productId])
    ELSE defaultScoringRules

\* Math.round of the non-negative rational n / d
Round(n, d) == (2 * n + d) \div (2 * d)

(***************************************************************************)
(* Exact arithmetic on naturals written as little-endian digit sequences   *)
(* in base Scale: x * f^k / Scale^k (Math.pow and the product that uses    *)
(* it) is computed without leaving the range of 32-bit integers.           *)
(***************************************************************************)
RECURSIVE Digits(_)
Digits(n) == IF n < Scale THEN <<n>> ELSE <<n % Scale>> \o Digits(n \div Scale)

RECURSIVE TimesSmall(_, _, _)
TimesSmall(ds, m, carry) ==
    IF ds = <<>>
    THEN IF carry = 0 THEN <<>> ELSE Digits(carry)
    ELSE LET v == ds[1] * m + carry
         IN  <<v % Scale>> \o TimesSmall(Tail(ds), m, v \div Scale)

RECURSIVE TimesPow(_, _, _)
TimesPow(ds, f, k) == IF k = 0 THEN ds ELSE TimesPow(TimesSmall(ds, f, 0), f, k - 1)

RECURSIVE Value(_)
Value(ds) == IF ds = <<>> THEN 0 ELSE ds[1] + Scale * Value(Tail(ds))

\* Math.round of ds / Scale^shift
RoundShift(ds, shift) ==
    LET doubled == TimesSmall(ds, 2, 0)
        top == IF Len(doubled) > shift
               THEN Value(SubSeq(doubled, shift + 1, Len(doubled))) ELSE 0
    IN  (top + 1) \div 2

Min(a, b) == IF a <= b THEN a ELSE b
Max(a, b) == IF a >= b THEN a ELSE b

calculateEventScore(event, scoringRules) ==
    LET points ==
          CASE event.event_type = "login" -> scoringRules.login_points
            [] event.event_type = "email_open" -> scoringRules.email_open_points
            [] event.event_type = "email_click" -> scoringRules.email_click_points
            [] event.event_type = "whatsapp_reply" -> scoringRules.whatsapp_reply_points
            [] event.event_type = "chatbot_interaction" ->
                   scoringRules.chatbot_interaction_points
            [] OTHER -> event.score_impact
    IN  IF event.channel = "email"
        THEN Round(points * scoringRules.email_engagement_multiplier, Scale)
        ELSE points

applyTimeDecay(eventScore, eventTimestamp, scoringRules) ==
    LET hoursAgo == Now - eventTimestamp
        daysOld  == hoursAgo \div 24
    IN  IF hoursAgo <= scoringRules.decay_start_hours
        THEN eventScore
        ELSE RoundShift(TimesPow(Digits(eventScore), scoringRules.time_decay_factor,
                                 daysOld),
                        daysOld)

\* calendar day of a timestamp (setHours(0, 0, 0, 0))
DayOf(ts) == ts \div 24

RECURSIVE ConsecutiveDaysFrom(_, _, _)
ConsecutiveDaysFrom(checkDay, eventHistory, i) ==
    IF i >= 30 THEN 0
    ELSE IF \E k \in DOMAIN eventHistory :
                DayOf(eventHistory[k].timestamp) = checkDay
         THEN 1 + ConsecutiveDaysFrom(checkDay - 1, eventHistory, i + 1)
         ELSE 0

calculateConsecutiveDays(currentEvent, eventHistory) ==
    1 + ConsecutiveDaysFrom(DayOf(currentEvent.timestamp) - 1, eventHistory, 0)

\* number of elements of a sequence that satisfy Test
Count(s, Test(_)) == Cardinality({i \in DOMAIN s : Test(s[i])})

\* the additive part of bonusMultiplier, in hundredths
additiveBonus(event, eventHistory, scoringRules) ==
    LET highValue == IF event.high_value_action
                     THEN scoringRules.high_value_action_bonus ELSE 0
        IsEarlierSameType(e) == /\ e.event_type = event.event_type
                                /\ e.timestamp < event.timestamp
        firstTime == IF Count(eventHistory, IsEarlierSameType) = 0
                     THEN scoringRules.first_time_bonus - Scale ELSE 0
        consecutiveDays == calculateConsecutiveDays(event, eventHistory)
        consecutive == IF consecutiveDays > 1
                       THEN Min(consecutiveDays * scoringRules.consecutive_days_bonus,
                                Scale)
                       ELSE 0
    IN  Scale + highValue + firstTime + consecutive

\* the exponent of repeat_engagement_decay in bonusMultiplier
repeatDecayExponent(event, eventHistory) ==
    LET IsSameType(e) == e.event_type = event.event_type
        sameTypeCount == Count(eventHistory, IsSameType)
    IN  IF sameTypeCount > 1 THEN sameTypeCount - 1 ELSE 0

applyEngagementBonuses(eventScore, event, eventHistory, scoringRules) ==
    LET additive == additiveBonus(event, eventHistory, scoringRules)
        k == repeatDecayExponent(event, eventHistory)
    IN  RoundShift(TimesPow(Digits(eventScore * additive),
                            scoringRules.repeat_engagement_decay, k),
                   k + 1)

\* rows without the row at index i
Without(rows, i) ==
    [k \in 1 .. Len(rows) - 1 |-> IF k < i THEN rows[k] ELSE rows[k + 1]]

\* the answers ORDER BY timestamp ASC can give: the store leaves the order
\* of rows of equal timestamp open
RECURSIVE OrderByTimestampAsc(_)
OrderByTimestampAsc(rows) ==
    IF rows = <<>> THEN {<<>>}
    ELSE LET least == {i \in DOMAIN rows :
                         \A j \in DOMAIN rows :
                            rows[i].timestamp <= rows[j].timestamp}
         IN  UNION {{<<rows[i]>> \o rest :
                        rest \in OrderByTimestampAsc(Without(rows, i))} :
                    i \in least}

\* the rows SELECT * FROM engagement_events WHERE lead_id = $1 AND
\* timestamp >= cutoffTime ORDER BY timestamp ASC can return
selectEventsInWindow(rows, scoringRules) ==
    LET InWindow(e) == e.timestamp >= Now - scoringRules.engagement_window
    IN  OrderByTimestampAsc(SelectSeq(rows, InWindow))

\* the score of events[i] after decay and bonuses
finalScore(events, i, scoringRules) ==
    LET event == events[i]
        eventHistory == SubSeq(events, 1, i - 1)
        baseScore == calculateEventScore(event, scoringRules)
        decayedScore == applyTimeDecay(baseScore, event.timestamp, scoringRules)
    IN  applyEngagementBonuses(decayedScore, event, eventHistory, scoringRules)

RECURSIVE SumFinalScores(_, _, _)
SumFinalScores(events, i, scoringRules) ==
    IF i > Len(events) THEN 0
    ELSE finalScore(events, i, scoringRules)
            + SumFinalScores(events, i + 1, scoringRules)

\* calculateLeadScore granting the recent-activity bonus of one event to a
\* lead without recent events
totalScoreWithFloorBonus(events, scoringRules) ==
    LET IsRecent(e) == Now - e.timestamp <= scoringRules.recent_activity_window
        recentEvents == Count(events, IsRecent)
        recentActivityBonus == Min(Max(recentEvents, 1) * 5, 50)
    IN  Max(0, SumFinalScores(events, 1, scoringRules) + recentActivityBonus)

\* total_score of calculateLeadScore once the query has answered events
totalScore(events, scoringRules) ==
    LET IsRecent(e) == Now - e.timestamp <= scoringRules.recent_activity_window
        recentEvents == Count(events, IsRecent)
        recentActivityBonus == IF recentEvents > 0 THEN Min(recentEvents * 5, 50)
                               ELSE 0
    IN  Max(0, SumFinalScores(events, 1, scoringRules) + recentActivityBonus)

\* the values of total_score calculateLeadScore can return over the rows of
\* one lead
calculateLeadScore(rows, scoringRules) ==
    {totalScore(events, scoringRules) :
        events \in selectEventsInWindow(rows, scoringRules)}

(***************************************************************************)
(* Lead.calculateEngagementScore: the static sum over an array of events.  *)
(***************************************************************************)
leadDefaultRules ==
    [login_points                |-> 10,
     email_open_points           |-> 5,
     email_click_points          |-> 15,
     whatsapp_reply_points       |-> 20,
     chatbot_interaction_points  |-> 10,
     email_engagement_multiplier |-> 100]

\* Math.round(points) of one event
leadEventPoints(event, rules) ==
    CASE event.event_type = "login" -> rules.login_points
      [] event.event_type = "email_open" ->
            Round(rules.email_open_points * rules.email_engagement_multiplier, Scale)
      [] event.event_type = "email_click" ->
            Round(rules.email_click_points * rules.email_engagement_multiplier, Scale)
      [] event.event_type = "whatsapp_reply" -> rules.whatsapp_reply_points
      [] event.event_type = "chatbot_interaction" -> rules.chatbot_interaction_points
      [] OTHER -> event.score_impact

RECURSIVE SumLeadEventPoints(_, _)
SumLeadEventPoints(events, rules) ==
    IF events = <<>> THEN 0
    ELSE leadEventPoints(Head(events), rules) + SumLeadEventPoints(Tail(events), rules)

calculateEngagementScore(events, scoringRules) ==
    LET rules == Merge(leadDefaultRules, scoringRules)
    IN  Max(0, SumLeadEventPoints(events, rules))

\* the scoringRules arguments of the static calculations: none, the rules of
\* the configured product, a halved email multiplier, one point per email
\* open
NoRules == [k \in {} |-> 0]
halvedEmailRules == [email_engagement_multiplier |-> 50]
unitOpenRules == [email_open_points |-> 1]
RuleArguments == {"undefined", "product", "halved", "unit"}
ruleArgument(name) ==
    CASE name = "product" -> productScoringRules
      [] name = "halved" -> halvedEmailRules
      [] name = "unit" -> unitOpenRules
      [] OTHER -> NoRules

(***************************************************************************)
(* EngagementEvent.calculateScoreImpact.  basePoints is kept in            *)
(* hundredths.  The metadata of the calls carries no timestamp, so the     *)
(* time-decay branch of the function is not entered.                       *)
(***************************************************************************)
eventDefaultRules ==
    [login_points                |-> 10,
     email_open_points           |-> 5,
     email_click_points          |-> 15,
     whatsapp_reply_points       |-> 20,
     chatbot_interaction_points  |-> 10,
     email_engagement_multiplier |-> 100,
     time_decay_factor           |-> 100]

NoMetadata == [high_value_action |-> FALSE, repeat_engagement |-> FALSE,
               engagement_count |-> 1]

\* the repeat multiplier taken as 1 / engagement_count
RoundOverCount(n, d, count) == Round(n, d * count)

\* Math.round of (n / d) / Math.sqrt(count), for n >= 0 and count >= 1
RoundOverSqrt(n, d, count) ==
    CHOOSE r \in 0 .. (n \div d) + 1 :
       /\ r > 0 => (2 * r - 1) * (2 * r - 1) * count * d * d <= 4 * n * n
       /\ 4 * n * n < (2 * r + 1) * (2 * r + 1) * count * d * d

\* basePoints after the switch and the channel multiplier, in hundredths
impactBasePoints(eventType, channel, rules) ==
    LET points ==
          CASE eventType = "login" -> rules.login_points
            [] eventType = "email_open" -> rules.email_open_points
            [] eventType = "email_click" -> rules.email_click_points
            [] eventType = "whatsapp_reply" -> rules.whatsapp_reply_points
            [] eventType = "chatbot_interaction" -> rules.chatbot_interaction_points
            [] OTHER -> 0
    IN  IF channel = "email"
        THEN points * rules.email_engagement_multiplier
        ELSE points * Scale

calculateScoreImpact(eventType, channel, scoringRules, metadata) ==
    LET rules == Merge(eventDefaultRules, scoringRules)
        basePoints == impactBasePoints(eventType, channel, rules)
        bonus == IF metadata.high_value_action
                 THEN Max(1, Round(basePoints * 50, Scale * Scale))
                 ELSE 0
        withBonus == basePoints + bonus * Scale
    IN  IF metadata.repeat_engagement /\ metadata.engagement_count > 1
        THEN RoundOverSqrt(withBonus, Scale, metadata.engagement_count)
        ELSE Round(withBonus, Scale)

\* the arguments of the calculateScoreImpact calls
ImpactTypes == {"email_open", "webinar"}
ImpactChannels == {"product", "email"}
ImpactRules == {"undefined", "unit"}
EngagementCounts == {1, 2}
ImpactMetadata ==
    [high_value_action : BOOLEAN, repeat_engagement : BOOLEAN,
     engagement_count : EngagementCounts]

(***************************************************************************)
(* evaluateConditions: the conditions of one rule against a lead row and   *)
(* the rows getLeadEvents returned.                                        *)
(***************************************************************************)
Configured(conditions, name) == name \in DOMAIN conditions

\* conditions.min_events || 1
minEventsOrOne(conditions) ==
    IF Configured(conditions, "min_events") /\ conditions.min_events # 0
    THEN conditions.min_events ELSE 1

scoreMet(lead, conditions) ==
    lead.engagement_score >= conditions.min_engagement_score

eventsMet(events, conditions) == Len(events) >= conditions.min_events

timeWindowMet(events, conditions) ==
    LET cutoffTime == Now - conditions.time_window_hours
        IsRecent(e) == e.timestamp >= cutoffTime
    IN  Count(events, IsRecent) >= minEventsOrOne(conditions)

hasConversionEvent(events) == \E i \in DOMAIN events : events[i].conversion

eventTypesMet(events, conditions) ==
    \A t \in Range(conditions.required_event_types) :
        \E i \in DOMAIN events : events[i].event_type = t

\* the conditions in the order the code checks them
ConditionOrder == <<"min_engagement_score", "min_events", "time_window_hours",
                    "conversion_event", "required_event_types">>

ConditionFails(lead, events, conditions, name) ==
    CASE name = "min_engagement_score" ->
            Configured(conditions, name) /\ ~scoreMet(lead, conditions)
      [] name = "min_events" ->
            Configured(conditions, name) /\ ~eventsMet(events, conditions)
      [] name = "time_window_hours" ->
            Configured(conditions, name) /\ ~timeWindowMet(events, conditions)
      [] name = "conversion_event" ->
            /\ Configured(conditions, name)
            /\ conditions.conversion_event
            /\ ~hasConversionEvent(events)
      [] name = "required_event_types" ->
            Configured(conditions, name) /\ ~eventTypesMet(events, conditions)

\* evaluateConditions returning at the first condition that fails
evaluateConditionsFirstFailure(lead, events, conditions) ==
    LET Fails(name) == ConditionFails(lead, events, conditions, name)
        failed == SelectSeq(ConditionOrder, Fails)
    IN  [met |-> failed = <<>>,
         failedConditions |-> IF failed = <<>> THEN <<>> ELSE <<Head(failed)>>]

evaluateConditions(lead, events, conditions) ==
    LET Fails(name) == ConditionFails(lead, events, conditions, name)
        failed == SelectSeq(ConditionOrder, Fails)
    IN  [met |-> failed = <<>>, failedConditions |-> failed]

\* progression_rules of two product configurations: one with conditions the
\* default rules do not use, one whose rule for User names a stage that is
\* not adjacent to User
typesRules ==
    [User         |-> [to |-> "Engaged_Lead",
                       conditions |-> [min_events |-> 2,
                                       required_event_types |->
                                          <<"login", "whatsapp_reply">>]],
     Engaged_Lead |-> [to |-> "Qualified_Lead",
                       conditions |-> [time_window_hours |-> 24]]]

skipRules ==
    [User |-> [to |-> "Customer",
               conditions |-> [min_engagement_score |-> 50]]]

\* the productConfig arguments: null, or a configuration with progression_rules
ProductConfigs == {"null"}
CustomConfigs == {"types", "skip"}

\* productConfig?.progression_rules || this.defaultRules
progressionRules(productConfig) ==
    CASE productConfig = "types" -> typesRules
      [] productConfig = "skip" -> skipRules
      [] productConfig = "window" ->
            \* a time window with min_events 0 and one with min_events 2
            [User         |-> [to |-> "Engaged_Lead",
                               conditions |-> [min_events |-> 0,
                                               time_window_hours |-> 24]],
             Engaged_Lead |-> [to |-> "Qualified_Lead",
                               conditions |-> [min_events |-> 2,
                                               time_window_hours |-> 168]]]
      [] OTHER -> defaultRules

\* the value evaluateProgression returns for a lead row and its event rows
evaluateProgression(lead, events, productConfig) ==
    LET rules == progressionRules(productConfig)
    IN  IF lead.stage \notin DOMAIN rules
        THEN [canProgress |-> FALSE, reason |-> "No progression rule defined",
              nextStage |-> "undefined", currentStage |-> "undefined",
              hasEvaluation |-> FALSE, failedConditions |-> <<>>]
        ELSE LET currentStageRule == rules[lead.stage]
                 evaluation == evaluateConditions(lead, events,
                                                  currentStageRule.conditions)
             IN  [canProgress |-> evaluation.met, reason |-> "",
                  nextStage |-> currentStageRule.to, currentStage |-> lead.stage,
                  hasEvaluation |-> TRUE,
                  failedConditions |-> evaluation.failedConditions]

(***************************************************************************)
(* State.  The four tables hold committed rows only; txn[p] holds the      *)
(* statements call p has issued inside its open transaction.               *)
(***************************************************************************)
VARIABLES
    leads,              \* table leads: id -> [stage, engagement_score]
    engagement_events,  \* table engagement_events: lead id -> rows, in insertion order
    stage_transitions,  \* table stage_transitions: rows in commit order
    lead_scores,        \* table lead_scores: rows in commit order
    pc,                 \* where each call stands
    call,               \* the engine call each process runs, with its arguments
    local,              \* the local variables of the call
    txn,                \* statements of the open transaction of the call
    result,             \* what the call returned or threw
    opsStarted,         \* calls started so far
    failures,           \* store round trips that failed so far
    clock,              \* transactions begun so far: the time of the store
    product_configs,    \* table: the scoring_rules column of each product's row
    productConfigs,     \* the cache of getScoringRules, a Map by product id
    pool                \* the pooled client of each call's last transaction

vars == <<leads, engagement_events, stage_transitions, lead_scores,
          pc, call, local, txn, result, opsStarted, failures, clock,
          product_configs, productConfigs, pool>>

tables == <<leads, engagement_events, stage_transitions, lead_scores>>

NoEvent == [event_type |-> "none", channel |-> "none", timestamp |-> 0,
            high_value_action |-> FALSE, conversion |-> FALSE, score_impact |-> 0]

NoCall == [op |-> "none", leadId |-> NoLead, newStage |-> "User",
           leadIds |-> <<>>, productConfig |-> "null", eventData |-> NoEvent,
           productId |-> "undefined", events |-> <<>>, scoringRules |-> "undefined",
           eventType |-> "none", channel |-> "none", metadata |-> NoMetadata,
           eventId |-> 0, fromStage |-> "undefined", score |-> 0,
           thresholds |-> defaultScoringRules]

NoEvaluation == [canProgress |-> FALSE, reason |-> "", nextStage |-> "undefined",
                 currentStage |-> "undefined", hasEvaluation |-> FALSE,
                 failedConditions |-> <<>>]

NoLocal == [lead |-> NoLead, newStage |-> "User", oldStage |-> "undefined",
            forced |-> FALSE, evaluation |-> NoEvaluation,
            leadRow |-> [stage |-> "undefined", engagement_score |-> 0],
            body |-> "none", error |-> "", event |-> NoEvent,
            oldScore |-> 0, newScore |-> 0, idx |-> 0, results |-> <<>>,
            txTime |-> 0, scoringRules |-> defaultScoringRules]

\* a client of the pool: the transaction statements issued on it since
\* pool.connect() and the number of times it was released
NoClient == [statements |-> <<>>, released |-> 0]

\* what a call hands back to its caller: a returned value or a thrown error
NoResult == [threw |-> FALSE, error |-> "", success |-> FALSE, progressed |-> FALSE,
             reason |-> "", leadId |-> NoLead, oldStage |-> "undefined",
             newStage |-> "undefined", forced |-> FALSE, hasEvaluation |-> FALSE,
             changed |-> FALSE, oldScore |-> 0, newScore |-> 0,
             event |-> NoEvent, results |-> <<>>,
             canProgress |-> FALSE, nextStage |-> "undefined",
             currentStage |-> "undefined", failedConditions |-> <<>>,
             rows |-> <<>>, total_score |-> 0, event_count |-> 0,
             final_scores |-> <<>>, scoring_rules_used |-> defaultScoringRules,
             valid |-> FALSE, stages |-> <<>>, recommended_stage |-> "undefined"]

Thrown(error) == [NoResult EXCEPT !.threw = TRUE, !.error = error]

(***************************************************************************)
(* Rows the store holds when the engines start.                            *)
(***************************************************************************)
threeEvents ==
    <<Event("login", "product", Now - 30, FALSE, FALSE),
      Event("email_open", "email", Now - 20, FALSE, FALSE),
      Event("email_click", "email", Now - 2, TRUE, FALSE)>>

eightEvents ==
    <<Event("login", "product", Now - 100, FALSE, FALSE),
      Event("email_open", "email", Now - 90, FALSE, FALSE),
      Event("login", "product", Now - 70, FALSE, FALSE),
      Event("whatsapp_reply", "whatsapp", Now - 50, FALSE, FALSE),
      Event("chatbot_interaction", "chatbot", Now - 30, FALSE, FALSE)>>
    \o threeEvents

eightEventsConverted ==
    [eightEvents EXCEPT ![8] = Event("email_click", "email", Now - 2, TRUE, TRUE)]

InitialRows ==
    {[stage |-> "User", engagement_score |-> 0, events |-> <<>>],
     [stage |-> "User", engagement_score |-> 320, events |-> eightEventsConverted],
     [stage |-> "Engaged_Lead", engagement_score |-> 60, events |-> threeEvents],
     [stage |-> "Qualified_Lead", engagement_score |-> 320,
      events |-> eightEventsConverted],
     [stage |-> "Customer", engagement_score |-> 320, events |-> eightEventsConverted]}

\* L2 starts in User and meets the conditions of every default rule
InitialStore ==
    {rows \in [Leads -> InitialRows] :
        rows["L2"].stage = "User" /\ rows["L2"].engagement_score > 0}

Init ==
    /\ \E rows \in InitialStore :
          /\ leads = [l \in Leads |-> [stage |-> rows[l].stage,
                                       engagement_score |-> rows[l].engagement_score]]
          /\ engagement_events = [l \in Leads |-> rows[l].events]
    /\ stage_transitions = <<>>
    /\ lead_scores = <<>>
    /\ pc = [p \in Procs |-> "idle"]
    /\ call = [p \in Procs |-> NoCall]
    /\ local = [p \in Procs |-> NoLocal]
    /\ txn = [p \in Procs |-> <<>>]
    /\ result = [p \in Procs |-> NoResult]
    /\ opsStarted = 0
    /\ failures = 0
    /\ clock = 0
    /\ product_configs = [id \in {ConfiguredProduct} |-> productScoringRules]
    /\ productConfigs = [id \in ProductIds |->
                           [has |-> FALSE, rules |-> defaultScoringRules]]
    /\ pool = [p \in Procs |-> NoClient]

(***************************************************************************)
(* Control flow shared by the calls.                                       *)
(***************************************************************************)
\* the locals of batchAutoProgress when it turns to element idx of leadIds
NextElement(p, results, idx) ==
    [NoLocal EXCEPT !.lead = call[p].leadIds[idx], !.idx = idx, !.results = results]

\* batchAutoProgress without the try/catch around autoProgressLead: an error of
\* one element is thrown to the caller of the batch
FinishAbortsOnError(p, loc, outcome) ==
    IF call[p].op = "batch" /\ ~outcome.threw
    THEN LET results == Append(loc.results, [outcome EXCEPT !.leadId = loc.lead])
             idx == loc.idx + 1
         IN  IF idx > Len(call[p].leadIds)
             THEN /\ pc' = [pc EXCEPT ![p] = "done"]
                  /\ local' = [local EXCEPT ![p] = NoLocal]
                  /\ result' = [result EXCEPT ![p] =
                                   [NoResult EXCEPT !.results = results]]
             ELSE /\ pc' = [pc EXCEPT ![p] = "ep_find"]
                  /\ local' = [local EXCEPT ![p] =
                                  [NoLocal EXCEPT !.lead = call[p].leadIds[idx],
                                                  !.idx = idx, !.results = results]]
                  /\ UNCHANGED result
    ELSE /\ pc' = [pc EXCEPT ![p] = "done"]
         /\ local' = [local EXCEPT ![p] = NoLocal]
         /\ result' = [result EXCEPT ![p] = outcome]

\* batchAutoProgress whose catch block pushes nothing
FinishSkipsFailed(p, loc, outcome) ==
    IF call[p].op = "batch"
    THEN LET results == IF outcome.threw THEN loc.results
                        ELSE Append(loc.results, [outcome EXCEPT !.leadId = loc.lead])
             idx == loc.idx + 1
         IN  IF idx > Len(call[p].leadIds)
             THEN /\ pc' = [pc EXCEPT ![p] = "done"]
                  /\ local' = [local EXCEPT ![p] = NoLocal]
                  /\ result' = [result EXCEPT ![p] =
                                   [NoResult EXCEPT !.results = results]]
             ELSE /\ pc' = [pc EXCEPT ![p] = "ep_find"]
                  /\ local' = [local EXCEPT ![p] =
                                  [NoLocal EXCEPT !.lead = call[p].leadIds[idx],
                                                  !.idx = idx, !.results = results]]
                  /\ UNCHANGED result
    ELSE /\ pc' = [pc EXCEPT ![p] = "done"]
         /\ local' = [local EXCEPT ![p] = NoLocal]
         /\ result' = [result EXCEPT ![p] = outcome]

\* The call of process p hands outcome to its caller with locals loc.  Inside
\* batchAutoProgress the caller is the loop: it pushes {leadId, ...result} or
\* {leadId, progressed: false, error} and turns to the next element; inside
\* batchUpdateScores it pushes the result or {leadId, error, changed: false}.
Finish(p, loc, outcome) ==
    IF call[p].op \in {"batch", "batch_scores"}
    THEN LET results == Append(loc.results, [outcome EXCEPT !.leadId = loc.lead])
             idx == loc.idx + 1
         IN  IF idx > Len(call[p].leadIds)
             THEN /\ pc' = [pc EXCEPT ![p] = "done"]
                  /\ local' = [local EXCEPT ![p] = NoLocal]
                  /\ result' = [result EXCEPT ![p] =
                                   [NoResult EXCEPT !.results = results]]
             ELSE /\ pc' = [pc EXCEPT ![p] = IF call[p].op = "batch" THEN "ep_find"
                                             ELSE "us_find"]
                  /\ local' = [local EXCEPT ![p] = NextElement(p, results, idx)]
                  /\ UNCHANGED result
    ELSE /\ pc' = [pc EXCEPT ![p] = "done"]
         /\ local' = [local EXCEPT ![p] = NoLocal]
         /\ result' = [result EXCEPT ![p] = outcome]

\* a new call takes the first process that runs none
Free(p) == pc[p] \in {"idle", "done"}
CanStart(p) ==
    /\ Free(p)
    /\ \A q \in Procs : q < p => ~Free(q)
    /\ opsStarted < MaxOps

Begin(p, c, loc, label) ==
    /\ CanStart(p)
    /\ opsStarted' = opsStarted + 1
    /\ call' = [call EXCEPT ![p] = c]
    /\ local' = [local EXCEPT ![p] = loc]
    /\ pc' = [pc EXCEPT ![p] = label]
    /\ result' = [result EXCEPT ![p] = NoResult]
    /\ UNCHANGED <<tables, txn, failures, clock,
                 product_configs, productConfigs, pool>>

(***************************************************************************)
(* transaction(callback): BEGIN, the statements of the callback, COMMIT;   *)
(* any error inside leads to ROLLBACK and is thrown to the caller.         *)
(***************************************************************************)
ApplyWrite(d, w) ==
    CASE w.table = "leads" ->
            [d EXCEPT !.leads[w.id][w.column] = w.value]
      [] w.table = "stage_transitions" ->
            [d EXCEPT !.stage_transitions = Append(@, w.row)]
      [] w.table = "lead_scores" ->
            [d EXCEPT !.lead_scores = Append(@, w.row)]
      [] w.table = "engagement_events" ->
            [d EXCEPT !.engagement_events[w.id] = Append(@, w.row)]

RECURSIVE ApplyWrites(_, _)
ApplyWrites(d, ws) ==
    IF ws = <<>> THEN d ELSE ApplyWrites(ApplyWrite(d, Head(ws)), Tail(ws))

\* the tables after COMMIT of the statements ws
Committed(ws) ==
    ApplyWrites([leads |-> leads, engagement_events |-> engagement_events,
                 stage_transitions |-> stage_transitions,
                 lead_scores |-> lead_scores], ws)

FirstStatement(body) ==
    CASE body = "stage" -> "tx_stage"
      [] body = "score" -> "tx_score"
      [] body = "event" -> "tx_event"
      [] body = "increment" -> "tx_insert"

\* BEGIN: CURRENT_TIMESTAMP of the transaction is the time of its start
TxBegin(p) ==
    /\ pc[p] = "tx_begin"
    /\ pc' = [pc EXCEPT ![p] = FirstStatement(local[p].body)]
    /\ txn' = [txn EXCEPT ![p] = <<>>]
    /\ clock' = clock + 1
    /\ local' = [local EXCEPT ![p].txTime = clock + 1]
    /\ pool' = [pool EXCEPT ![p] = [NoClient EXCEPT !.statements = <<"BEGIN">>]]
    /\ UNCHANGED <<tables, call, result, opsStarted, failures,
                 product_configs, productConfigs>>

\* the statements issued before the error stay in the tables, as they would
\* on a connection in autocommit mode
TxRollbackKeepsStatements(p) ==
    /\ pc[p] = "tx_rollback"
    /\ LET d == Committed(txn[p])
       IN  /\ leads' = d.leads
           /\ engagement_events' = d.engagement_events
           /\ stage_transitions' = d.stage_transitions
           /\ lead_scores' = d.lead_scores
    /\ txn' = [txn EXCEPT ![p] = <<>>]
    /\ Finish(p, local[p], Thrown(local[p].error))
    /\ pool' = [pool EXCEPT ![p].statements = Append(@, "ROLLBACK"),
                            ![p].released = @ + 1]
    /\ UNCHANGED <<call, opsStarted, clock, failures,
                 product_configs, productConfigs>>

\* the helper without its finally block: the client is released after COMMIT
\* only
TxRollbackKeepsClient(p) ==
    /\ pc[p] = "tx_rollback"
    /\ txn' = [txn EXCEPT ![p] = <<>>]
    /\ Finish(p, local[p], Thrown(local[p].error))
    /\ pool' = [pool EXCEPT ![p].statements = Append(@, "ROLLBACK")]
    /\ UNCHANGED <<tables, call, opsStarted, clock, failures,
                 product_configs, productConfigs>>

\* catch: ROLLBACK, the statements are dropped and the error goes to the
\* caller; finally: client.release()
TxRollback(p) ==
    /\ pc[p] = "tx_rollback"
    /\ txn' = [txn EXCEPT ![p] = <<>>]
    /\ Finish(p, local[p], Thrown(local[p].error))
    /\ pool' = [pool EXCEPT ![p].statements = Append(@, "ROLLBACK"),
                            ![p].released = @ + 1]
    /\ UNCHANGED <<tables, call, opsStarted, clock, failures,
                 product_configs, productConfigs>>

\* catch: ROLLBACK rejects, its error replaces the one that was caught; the
\* connection is lost and the store drops the statements; finally:
\* client.release()
TxRollbackFails(p) ==
    /\ pc[p] = "tx_rollback"
    /\ txn' = [txn EXCEPT ![p] = <<>>]
    /\ Finish(p, local[p], Thrown("rollback failure"))
    /\ pool' = [pool EXCEPT ![p].statements = Append(@, "ROLLBACK failed"),
                            ![p].released = @ + 1]
    /\ UNCHANGED <<tables, call, opsStarted, clock, failures,
                 product_configs, productConfigs>>

\* another transaction has updated the row of lead id and has neither
\* committed nor rolled back: an UPDATE of that row waits for it
RowLocked(p, id) ==
    \E q \in Procs \ {p} :
       \E i \in DOMAIN txn[q] : txn[q][i].table = "leads" /\ txn[q][i].id = id

\* UPDATE leads SET stage = $1 WHERE id = $2; the column has a CHECK constraint
UpdateLeadStage(p) ==
    /\ pc[p] = "tx_stage"
    /\ ~RowLocked(p, local[p].lead)
    /\ IF local[p].newStage \in Stages
       THEN /\ txn' = [txn EXCEPT ![p] =
                         Append(@, [table |-> "leads", id |-> local[p].lead,
                                    column |-> "stage",
                                    value |-> local[p].newStage])]
            /\ pc' = [pc EXCEPT ![p] = "tx_transition"]
            /\ UNCHANGED local
       ELSE /\ pc' = [pc EXCEPT ![p] = "tx_rollback"]
            /\ local' = [local EXCEPT ![p].error = "check constraint"]
            /\ UNCHANGED txn
    /\ UNCHANGED <<tables, call, result, opsStarted, clock, failures,
                 product_configs, productConfigs, pool>>

\* the INSERT taking from_stage from the stored row instead of the stage the
\* call read
InsertStageTransitionStoredFrom(p) ==
    /\ pc[p] = "tx_transition"
    /\ txn' = [txn EXCEPT ![p] =
                 Append(@, [table |-> "stage_transitions",
                            row |-> [lead_id |-> local[p].lead,
                                     from_stage |-> leads[local[p].lead].stage,
                                     to_stage |-> local[p].newStage,
                                     forced_transition |-> local[p].forced,
                                     transition_at |-> local[p].txTime]])]
    /\ pc' = [pc EXCEPT ![p] = "tx_commit"]
    /\ UNCHANGED <<tables, call, local, result, opsStarted, clock, failures,
                 product_configs, productConfigs, pool>>

\* INSERT INTO stage_transitions (lead_id, from_stage, to_stage, ...)
InsertStageTransition(p) ==
    /\ pc[p] = "tx_transition"
    /\ txn' = [txn EXCEPT ![p] =
                 Append(@, [table |-> "stage_transitions",
                            row |-> [lead_id |-> local[p].lead,
                                     from_stage |-> local[p].oldStage,
                                     to_stage |-> local[p].newStage,
                                     forced_transition |-> local[p].forced,
                                     transition_at |-> local[p].txTime]])]
    /\ pc' = [pc EXCEPT ![p] = "tx_commit"]
    /\ UNCHANGED <<tables, call, local, result, opsStarted, clock, failures,
                 product_configs, productConfigs, pool>>

\* what the call returns once its transaction has committed
AfterCommit(p) ==
    LET loc == local[p]
    IN  CASE loc.body = "stage" ->
               [NoResult EXCEPT !.success = TRUE,
                                !.progressed = call[p].op \in {"auto", "batch"},
                                !.leadId = loc.lead,
                                !.oldStage = loc.oldStage,
                                !.newStage = loc.newStage,
                                !.forced = loc.forced,
                                !.hasEvaluation = loc.evaluation.hasEvaluation]
          [] loc.body \in {"score", "increment"} ->
               [NoResult EXCEPT !.leadId = loc.lead,
                                !.changed = TRUE,
                                !.oldScore = loc.oldScore,
                                !.newScore = loc.newScore,
                                !.event = loc.event]

\* the caller goes on without waiting for COMMIT, which never takes effect
TxCommitNotAwaited(p) ==
    /\ pc[p] = "tx_commit"
    /\ IF local[p].body = "event"
       THEN /\ pc' = [pc EXCEPT ![p] = "us_find"]
            /\ UNCHANGED <<local, result>>
       ELSE Finish(p, local[p], AfterCommit(p))
    /\ pool' = [pool EXCEPT ![p].statements = Append(@, "COMMIT"),
                            ![p].released = @ + 1]
    /\ UNCHANGED <<tables, txn, call, opsStarted, clock, failures,
                 product_configs, productConfigs>>

\* COMMIT.  processEngagementEvent goes on to updateLeadScore; the other
\* calls return.
TxCommit(p) ==
    /\ pc[p] = "tx_commit"
    /\ LET d == Committed(txn[p])
       IN  /\ leads' = d.leads
           /\ engagement_events' = d.engagement_events
           /\ stage_transitions' = d.stage_transitions
           /\ lead_scores' = d.lead_scores
    /\ txn' = [txn EXCEPT ![p] = <<>>]
    /\ IF local[p].body = "event"
       THEN /\ pc' = [pc EXCEPT ![p] = "us_find"]
            /\ UNCHANGED <<local, result>>
       ELSE Finish(p, local[p], AfterCommit(p))
    /\ pool' = [pool EXCEPT ![p].statements = Append(@, "COMMIT"),
                            ![p].released = @ + 1]
    /\ UNCHANGED <<call, opsStarted, clock, failures,
                 product_configs, productConfigs>>

\* a store round trip rejects: inside a transaction the helper rolls back,
\* outside the error is thrown to the caller
InTransaction == {"tx_begin", "tx_stage", "tx_transition", "tx_score", "tx_history",
                  "tx_event", "tx_event_calc", "tx_commit", "tx_insert",
                  "tx_select"}
RoundTrips == InTransaction \cup {"et_find", "ft_find", "ep_find", "ep_events",
                                  "us_find", "us_calc", "pe_find", "th_query",
                                  "cs_events", "ee_save", "ps_find", "pl_find",
                                  "pl_save", "cq_find"}

StoreFails(p) ==
    /\ pc[p] \in RoundTrips
    /\ failures < MaxFailures
    /\ failures' = failures + 1
    /\ IF pc[p] \in InTransaction
       THEN /\ pc' = [pc EXCEPT ![p] = "tx_rollback"]
            /\ local' = [local EXCEPT ![p].error = "store failure"]
            /\ UNCHANGED result
       ELSE Finish(p, local[p], Thrown("store failure"))
    /\ pool' = [pool EXCEPT ![p] =
                  CASE pc[p] = "tx_begin" ->
                          [NoClient EXCEPT !.statements = <<"BEGIN failed">>]
                    [] pc[p] = "tx_commit" ->
                          [@ EXCEPT !.statements = Append(@, "COMMIT failed")]
                    [] OTHER -> @]
    /\ UNCHANGED <<tables, call, txn, opsStarted, clock,
                 product_configs, productConfigs>>

(***************************************************************************)
(* StageTransitionEngine.executeTransition and forceTransition.            *)
(***************************************************************************)
ExecuteTransitionCall(p, leadId, newStage) ==
    Begin(p, [NoCall EXCEPT !.op = "exec", !.leadId = leadId, !.newStage = newStage],
          [NoLocal EXCEPT !.lead = leadId, !.newStage = newStage], "et_find")

ForceTransitionCall(p, leadId, newStage) ==
    Begin(p, [NoCall EXCEPT !.op = "force", !.leadId = leadId, !.newStage = newStage],
          [NoLocal EXCEPT !.lead = leadId, !.newStage = newStage, !.forced = TRUE],
          "ft_find")

\* executeTransition without the isValidTransition test
ExecuteFindLeadUnvalidated(p) ==
    /\ pc[p] = "et_find"
    /\ LET id == local[p].lead
       IN  IF id \notin Leads
           THEN Finish(p, local[p], Thrown("Lead not found"))
           ELSE /\ pc' = [pc EXCEPT ![p] = "tx_begin"]
                /\ local' = [local EXCEPT ![p].oldStage = leads[id].stage,
                                          ![p].body = "stage"]
                /\ UNCHANGED result
    /\ UNCHANGED <<tables, call, txn, opsStarted, clock, failures,
                 product_configs, productConfigs, pool>>

\* executeTransition recording the attempt in the audit table before the
\* isValidTransition test
ExecuteFindLeadRecordsAttempt(p) ==
    /\ pc[p] = "et_find"
    /\ LET id == local[p].lead
       IN  IF id \notin Leads
           THEN /\ Finish(p, local[p], Thrown("Lead not found"))
                /\ UNCHANGED stage_transitions
           ELSE LET oldStage == leads[id].stage
                    loc == [local[p] EXCEPT !.oldStage = oldStage, !.body = "stage"]
                IN  IF ~isValidTransition(oldStage, loc.newStage)
                    THEN /\ Finish(p, loc, [Thrown("Invalid transition") EXCEPT
                                               !.leadId = id, !.oldStage = oldStage,
                                               !.newStage = loc.newStage])
                         /\ stage_transitions' =
                               Append(stage_transitions,
                                      [lead_id |-> id, from_stage |-> oldStage,
                                       to_stage |-> loc.newStage,
                                       forced_transition |-> FALSE,
                                       transition_at |-> clock])
                    ELSE /\ pc' = [pc EXCEPT ![p] = "tx_begin"]
                         /\ local' = [local EXCEPT ![p] = loc]
                         /\ UNCHANGED <<result, stage_transitions>>
    /\ UNCHANGED <<leads, engagement_events, lead_scores, call, txn, opsStarted, clock,
                   failures,
                 product_configs, productConfigs, pool>>

\* Lead.findById, then the validation of the transition
ExecuteFindLead(p) ==
    /\ pc[p] = "et_find"
    /\ LET id == local[p].lead
       IN  IF id \notin Leads
           THEN Finish(p, local[p], Thrown("Lead not found"))
           ELSE LET oldStage == leads[id].stage
                    loc == [local[p] EXCEPT !.oldStage = oldStage, !.body = "stage"]
                IN  IF ~isValidTransition(oldStage, loc.newStage)
                    THEN Finish(p, loc, [Thrown("Invalid transition") EXCEPT
                                            !.leadId = id, !.oldStage = oldStage,
                                            !.newStage = loc.newStage])
                    ELSE /\ pc' = [pc EXCEPT ![p] = "tx_begin"]
                         /\ local' = [local EXCEPT ![p] = loc]
                         /\ UNCHANGED result
    /\ UNCHANGED <<tables, call, txn, opsStarted, clock, failures,
                 product_configs, productConfigs, pool>>

\* forceTransition applying the adjacency validation of executeTransition
ForceFindLeadValidated(p) ==
    /\ pc[p] = "ft_find"
    /\ LET id == local[p].lead
       IN  IF id \notin Leads
           THEN Finish(p, local[p], Thrown("Lead not found"))
           ELSE IF ~isValidTransition(leads[id].stage, local[p].newStage)
           THEN Finish(p, local[p], Thrown("Invalid transition"))
           ELSE /\ pc' = [pc EXCEPT ![p] = "tx_begin"]
                /\ local' = [local EXCEPT ![p].oldStage = leads[id].stage,
                                           ![p].body = "stage"]
                /\ UNCHANGED result
    /\ UNCHANGED <<tables, call, txn, opsStarted, clock, failures,
                 product_configs, productConfigs, pool>>

\* Lead.findById of forceTransition: no validation
ForceFindLead(p) ==
    /\ pc[p] = "ft_find"
    /\ LET id == local[p].lead
       IN  IF id \notin Leads
           THEN Finish(p, local[p], Thrown("Lead not found"))
           ELSE /\ pc' = [pc EXCEPT ![p] = "tx_begin"]
                /\ local' = [local EXCEPT ![p].oldStage = leads[id].stage,
                                           ![p].body = "stage"]
                /\ UNCHANGED result
    /\ UNCHANGED <<tables, call, txn, opsStarted, clock, failures,
                 product_configs, productConfigs, pool>>

(***************************************************************************)
(* StageTransitionEngine.autoProgressLead and batchAutoProgress.           *)
(***************************************************************************)
EvaluateProgressionCall(p, leadId, productConfig) ==
    Begin(p, [NoCall EXCEPT !.op = "evaluate", !.leadId = leadId,
                            !.productConfig = productConfig],
          [NoLocal EXCEPT !.lead = leadId], "ep_find")

AutoProgressLeadCall(p, leadId, productConfig) ==
    Begin(p, [NoCall EXCEPT !.op = "auto", !.leadId = leadId,
                            !.productConfig = productConfig],
          [NoLocal EXCEPT !.lead = leadId], "ep_find")

BatchAutoProgressCall(p, leadIds, productConfig) ==
    LET c == [NoCall EXCEPT !.op = "batch", !.leadIds = leadIds,
                            !.productConfig = productConfig]
    IN  IF leadIds = <<>>
        THEN /\ CanStart(p)
             /\ opsStarted' = opsStarted + 1
             /\ call' = [call EXCEPT ![p] = c]
             /\ local' = [local EXCEPT ![p] = NoLocal]
             /\ pc' = [pc EXCEPT ![p] = "done"]
             /\ result' = [result EXCEPT ![p] = NoResult]
             /\ UNCHANGED <<tables, txn, failures, clock,
                 product_configs, productConfigs, pool>>
        ELSE Begin(p, c, [NoLocal EXCEPT !.lead = leadIds[1], !.idx = 1], "ep_find")

\* evaluateProgression: Lead.findById
EvaluateFindLead(p) ==
    /\ pc[p] = "ep_find"
    /\ LET id == local[p].lead
       IN  IF id \notin Leads
           THEN Finish(p, local[p], Thrown("Lead not found"))
           ELSE /\ pc' = [pc EXCEPT ![p] = "ep_events"]
                /\ local' = [local EXCEPT ![p].leadRow = leads[id]]
                /\ UNCHANGED result
    /\ UNCHANGED <<tables, call, txn, opsStarted, clock, failures,
                 product_configs, productConfigs, pool>>

\* evaluateProgression throwing when the stage of the lead has no rule
EvaluateGetEventsThrowsNoRule(p) ==
    /\ pc[p] = "ep_events"
    /\ LET events == engagement_events[local[p].lead]
           evaluation == evaluateProgression(local[p].leadRow, events,
                                             call[p].productConfig)
           loc == [local[p] EXCEPT !.evaluation = evaluation]
       IN  IF ~evaluation.hasEvaluation
           THEN Finish(p, loc, Thrown("No progression rule defined"))
           ELSE IF call[p].op = "evaluate"
           THEN Finish(p, loc,
                       [NoResult EXCEPT
                           !.leadId = loc.lead,
                           !.canProgress = evaluation.canProgress,
                           !.reason = evaluation.reason,
                           !.nextStage = evaluation.nextStage,
                           !.currentStage = evaluation.currentStage,
                           !.hasEvaluation = evaluation.hasEvaluation,
                           !.failedConditions = evaluation.failedConditions])
           ELSE IF ~evaluation.canProgress
           THEN Finish(p, loc,
                       [NoResult EXCEPT !.reason = "Conditions not met",
                                        !.hasEvaluation = evaluation.hasEvaluation])
           ELSE /\ pc' = [pc EXCEPT ![p] = "et_find"]
                /\ local' = [local EXCEPT ![p] =
                                [loc EXCEPT !.newStage = evaluation.nextStage]]
                /\ UNCHANGED result
    /\ UNCHANGED <<tables, call, txn, opsStarted, clock, failures,
                 product_configs, productConfigs, pool>>

\* evaluateProgression: getLeadEvents and the evaluation; then autoProgressLead
\* returns {progressed: false, ...} or goes on to executeTransition
EvaluateGetEvents(p) ==
    /\ pc[p] = "ep_events"
    /\ LET events == engagement_events[local[p].lead]
           evaluation == evaluateProgression(local[p].leadRow, events,
                                             call[p].productConfig)
           loc == [local[p] EXCEPT !.evaluation = evaluation]
       IN  IF call[p].op = "evaluate"
           THEN Finish(p, loc,
                       [NoResult EXCEPT
                           !.leadId = loc.lead,
                           !.canProgress = evaluation.canProgress,
                           !.reason = evaluation.reason,
                           !.nextStage = evaluation.nextStage,
                           !.currentStage = evaluation.currentStage,
                           !.hasEvaluation = evaluation.hasEvaluation,
                           !.failedConditions = evaluation.failedConditions])
           ELSE IF ~evaluation.canProgress
           THEN Finish(p, loc,
                       [NoResult EXCEPT !.reason = "Conditions not met",
                                        !.hasEvaluation = evaluation.hasEvaluation])
           ELSE /\ pc' = [pc EXCEPT ![p] = "et_find"]
                /\ local' = [local EXCEPT ![p] =
                                [loc EXCEPT !.newStage = evaluation.nextStage]]
                /\ UNCHANGED result
    /\ UNCHANGED <<tables, call, txn, opsStarted, clock, failures,
                 product_configs, productConfigs, pool>>

(***************************************************************************)
(* EngagementScoringEngine.updateLeadScore and processEngagementEvent.     *)
(* The product of the leads has no row in product_configs: getScoringRules *)
(* yields the default rules.                                               *)
(***************************************************************************)
UpdateLeadScoreCall(p, leadId) ==
    Begin(p, [NoCall EXCEPT !.op = "update", !.leadId = leadId],
          [NoLocal EXCEPT !.lead = leadId], "us_find")

\* Lead.findById of updateLeadScore
UpdateFindLead(p) ==
    /\ pc[p] = "us_find"
    /\ LET id == local[p].lead
       IN  IF id \notin Leads
           THEN Finish(p, local[p], Thrown("Lead not found"))
           ELSE /\ pc' = [pc EXCEPT ![p] = "us_calc"]
                /\ local' = [local EXCEPT ![p].oldScore = leads[id].engagement_score]
                /\ UNCHANGED result
    /\ UNCHANGED <<tables, call, txn, opsStarted, clock, failures,
                 product_configs, productConfigs, pool>>

\* updateLeadScore without the newScore === oldScore test
UpdateCalculateScoreAlwaysWrites(p) ==
    /\ pc[p] = "us_calc"
    /\ \E newScore \in calculateLeadScore(engagement_events[local[p].lead],
                                           defaultScoringRules) :
          local' = [local EXCEPT ![p].newScore = newScore, ![p].body = "score"]
    /\ pc' = [pc EXCEPT ![p] = "tx_begin"]
    /\ UNCHANGED <<tables, call, txn, result, opsStarted, clock, failures,
                 product_configs, productConfigs, pool>>

\* calculateLeadScore over the committed event rows, then the comparison
UpdateCalculateScore(p) ==
    /\ pc[p] = "us_calc"
    /\ \E newScore \in calculateLeadScore(engagement_events[local[p].lead],
                                           defaultScoringRules) :
       LET loc == [local[p] EXCEPT !.newScore = newScore, !.body = "score"]
       IN  IF newScore = loc.oldScore
           THEN Finish(p, loc, [NoResult EXCEPT !.leadId = loc.lead,
                                                !.oldScore = loc.oldScore,
                                                !.newScore = newScore,
                                                !.event = loc.event])
           ELSE /\ pc' = [pc EXCEPT ![p] = "tx_begin"]
                /\ local' = [local EXCEPT ![p] = loc]
                /\ UNCHANGED result
    /\ UNCHANGED <<tables, call, txn, opsStarted, clock, failures,
                 product_configs, productConfigs, pool>>

\* the UPDATE of the score on a table without the valid_engagement_score
\* constraint
UpdateLeadEngagementScoreUnchecked(p) ==
    /\ pc[p] = "tx_score"
    /\ ~RowLocked(p, local[p].lead)
    /\ txn' = [txn EXCEPT ![p] =
                 Append(@, [table |-> "leads", id |-> local[p].lead,
                            column |-> "engagement_score",
                            value |-> local[p].newScore])]
    /\ pc' = [pc EXCEPT ![p] = "tx_history"]
    /\ UNCHANGED <<tables, call, local, result, opsStarted, clock, failures,
                 product_configs, productConfigs, pool>>

\* UPDATE leads SET engagement_score = $1 WHERE id = $2; the table has
\* CONSTRAINT valid_engagement_score CHECK (engagement_score >= 0)
UpdateLeadEngagementScore(p) ==
    /\ pc[p] = "tx_score"
    /\ ~RowLocked(p, local[p].lead)
    /\ IF local[p].newScore >= 0
       THEN /\ txn' = [txn EXCEPT ![p] =
                         Append(@, [table |-> "leads", id |-> local[p].lead,
                                    column |-> "engagement_score",
                                    value |-> local[p].newScore])]
            /\ pc' = [pc EXCEPT ![p] = "tx_history"]
            /\ UNCHANGED local
       ELSE /\ pc' = [pc EXCEPT ![p] = "tx_rollback"]
            /\ local' = [local EXCEPT ![p].error = "check constraint"]
            /\ UNCHANGED txn
    /\ UNCHANGED <<tables, call, result, opsStarted, clock, failures,
                 product_configs, productConfigs, pool>>

\* INSERT INTO lead_scores (lead_id, score, calculation_reason)
InsertLeadScore(p) ==
    /\ pc[p] = "tx_history"
    /\ txn' = [txn EXCEPT ![p] =
                 Append(@, [table |-> "lead_scores",
                            row |-> [lead_id |-> local[p].lead,
                                     score |-> local[p].newScore]])]
    /\ pc' = [pc EXCEPT ![p] = "tx_commit"]
    /\ UNCHANGED <<tables, call, local, result, opsStarted, clock, failures,
                 product_configs, productConfigs, pool>>

ProcessEngagementEventCall(p, leadId, eventData) ==
    Begin(p, [NoCall EXCEPT !.op = "event", !.leadId = leadId,
                            !.eventData = eventData],
          [NoLocal EXCEPT !.lead = leadId], "pe_find")

\* Lead.findById of processEngagementEvent, then the event and its score_impact
ProcessFindLead(p) ==
    /\ pc[p] = "pe_find"
    /\ LET id == local[p].lead
           event == [call[p].eventData EXCEPT
                       !.score_impact = calculateEventScore(call[p].eventData,
                                                            defaultScoringRules)]
       IN  IF id \notin Leads
           THEN Finish(p, local[p], Thrown("Lead not found"))
           ELSE /\ pc' = [pc EXCEPT ![p] = "tx_begin"]
                /\ local' = [local EXCEPT ![p].event = event, ![p].body = "event"]
                /\ UNCHANGED result
    /\ UNCHANGED <<tables, call, txn, opsStarted, clock, failures,
                 product_configs, productConfigs, pool>>

\* INSERT INTO engagement_events ... RETURNING *
InsertEngagementEvent(p) ==
    /\ pc[p] = "tx_event"
    /\ txn' = [txn EXCEPT ![p] =
                 Append(@, [table |-> "engagement_events", id |-> local[p].lead,
                            row |-> local[p].event])]
    /\ pc' = [pc EXCEPT ![p] = "tx_event_calc"]
    /\ UNCHANGED <<tables, call, local, result, opsStarted, clock, failures,
                 product_configs, productConfigs, pool>>

\* calculateLeadScore inside the callback: its SELECT goes through the pool,
\* on another connection, and reads committed rows only
ProcessCalculateScore(p) ==
    /\ pc[p] = "tx_event_calc"
    /\ \E newScore \in calculateLeadScore(engagement_events[local[p].lead],
                                           defaultScoringRules) :
          local' = [local EXCEPT ![p].newScore = newScore]
    /\ pc' = [pc EXCEPT ![p] = "tx_score"]
    /\ UNCHANGED <<tables, call, txn, result, opsStarted, clock, failures,
                 product_configs, productConfigs, pool>>

(***************************************************************************)
(* EngagementScoringEngine.calculateLeadScore called on its own.           *)
(***************************************************************************)
CalculateLeadScoreCall(p, leadId, productId) ==
    Begin(p, [NoCall EXCEPT !.op = "calc", !.leadId = leadId,
                            !.productId = productId],
          [NoLocal EXCEPT !.lead = leadId], "cs_rules")

\* getScoringRules that stores the fallback in the cache as well
GetScoringRulesCachesFallback(p) ==
    /\ pc[p] = "cs_rules"
    /\ LET id == call[p].productId
           fetched == getScoringRules(product_configs, id)
       IN  IF productConfigs[id].has
           THEN /\ local' = [local EXCEPT ![p].scoringRules = productConfigs[id].rules]
                /\ UNCHANGED <<failures, productConfigs>>
           ELSE \/ /\ local' = [local EXCEPT ![p].scoringRules = fetched]
                   /\ productConfigs' = [productConfigs EXCEPT
                                            ![id] = [has |-> TRUE, rules |-> fetched]]
                   /\ UNCHANGED failures
                \/ /\ failures < MaxFailures
                   /\ failures' = failures + 1
                   /\ local' = [local EXCEPT ![p].scoringRules = defaultScoringRules]
                   /\ productConfigs' =
                         [productConfigs EXCEPT
                             ![id] = [has |-> TRUE, rules |-> defaultScoringRules]]
    /\ pc' = [pc EXCEPT ![p] = "cs_events"]
    /\ UNCHANGED <<tables, call, txn, result, opsStarted, clock, product_configs,
                   pool>>

\* getScoringRules: a cached product is answered from the cache; otherwise the
\* query's answer is merged over the defaults and cached, and a query that
\* rejects is caught and yields the defaults, which are not cached
GetScoringRules(p) ==
    /\ pc[p] = "cs_rules"
    /\ LET id == call[p].productId
           fetched == getScoringRules(product_configs, id)
       IN  IF productConfigs[id].has
           THEN /\ local' = [local EXCEPT ![p].scoringRules = productConfigs[id].rules]
                /\ UNCHANGED <<failures, productConfigs>>
           ELSE \/ /\ local' = [local EXCEPT ![p].scoringRules = fetched]
                   /\ productConfigs' = [productConfigs EXCEPT
                                            ![id] = [has |-> TRUE, rules |-> fetched]]
                   /\ UNCHANGED failures
                \/ /\ failures < MaxFailures
                   /\ failures' = failures + 1
                   /\ local' = [local EXCEPT ![p].scoringRules = defaultScoringRules]
                   /\ UNCHANGED productConfigs
    /\ pc' = [pc EXCEPT ![p] = "cs_events"]
    /\ UNCHANGED <<tables, call, txn, result, opsStarted, clock, product_configs,
                   pool>>

\* productConfigs.delete(productId)
clearCache(productId) ==
    /\ productConfigs[productId].has
    /\ productConfigs' = [productConfigs EXCEPT
                             ![productId] = [has |-> FALSE,
                                             rules |-> defaultScoringRules]]
    /\ UNCHANGED <<tables, pc, call, local, txn, result, opsStarted, failures,
                   clock, product_configs, pool>>

\* UPDATE product_configs SET scoring_rules = $1 WHERE product_id = $2, issued
\* by the administration of the product
UpdateProductConfig(productId, scoring_rules) ==
    /\ productId \in DOMAIN product_configs
    /\ product_configs[productId] # scoring_rules
    /\ product_configs' = [product_configs EXCEPT ![productId] = scoring_rules]
    /\ UNCHANGED <<tables, pc, call, local, txn, result, opsStarted, failures,
                   clock, productConfigs, pool>>

\* the query of the events in the window and the computation over its answer
CalculateLeadScoreEvents(p) ==
    /\ pc[p] = "cs_events"
    /\ \E events \in selectEventsInWindow(
                        IF local[p].lead \in Leads
                        THEN engagement_events[local[p].lead] ELSE <<>>,
                        local[p].scoringRules) :
          Finish(p, local[p],
                 [NoResult EXCEPT
                     !.leadId = local[p].lead,
                     !.total_score = totalScore(events, local[p].scoringRules),
                     !.event_count = Len(events),
                     !.final_scores =
                         [i \in DOMAIN events |->
                             finalScore(events, i, local[p].scoringRules)],
                     !.scoring_rules_used = local[p].scoringRules])
    /\ UNCHANGED <<tables, call, txn, opsStarted, clock, failures,
                 product_configs, productConfigs, pool>>

\* Lead.calculateEngagementScore(events, scoringRules): synchronous
CalculateEngagementScoreCall(p, events, scoringRules) ==
    /\ CanStart(p)
    /\ opsStarted' = opsStarted + 1
    /\ call' = [call EXCEPT ![p] = [NoCall EXCEPT !.op = "lead_score",
                                                  !.events = events,
                                                  !.scoringRules = scoringRules]]
    /\ local' = [local EXCEPT ![p] = NoLocal]
    /\ pc' = [pc EXCEPT ![p] = "done"]
    /\ result' = [result EXCEPT ![p] =
                     [NoResult EXCEPT
                         !.total_score =
                             calculateEngagementScore(events,
                                                      ruleArgument(scoringRules))]]
    /\ UNCHANGED <<tables, txn, failures, clock,
                 product_configs, productConfigs, pool>>

\* EngagementEvent.calculateScoreImpact(eventType, channel, scoringRules,
\* metadata): synchronous
CalculateScoreImpactCall(p, eventType, channel, scoringRules, metadata) ==
    /\ CanStart(p)
    /\ opsStarted' = opsStarted + 1
    /\ call' = [call EXCEPT ![p] = [NoCall EXCEPT !.op = "impact",
                                                  !.eventType = eventType,
                                                  !.channel = channel,
                                                  !.scoringRules = scoringRules,
                                                  !.metadata = metadata]]
    /\ local' = [local EXCEPT ![p] = NoLocal]
    /\ pc' = [pc EXCEPT ![p] = "done"]
    /\ result' = [result EXCEPT ![p] =
                     [NoResult EXCEPT
                         !.total_score =
                             calculateScoreImpact(eventType, channel,
                                                  ruleArgument(scoringRules),
                                                  metadata)]]
    /\ UNCHANGED <<tables, txn, failures, clock,
                 product_configs, productConfigs, pool>>

(***************************************************************************)
(* EngagementEvent.updateScoreImpact and save on an event read from the    *)
(* store: this.id is the id of the stored row.                             *)
(***************************************************************************)
\* updateScoreImpact(scoringRules): this.score_impact is computed anew
UpdateScoreImpactCall(p, leadId, eventId, scoringRules) ==
    /\ leadId \in Leads
    /\ eventId \in DOMAIN engagement_events[leadId]
    /\ LET event == engagement_events[leadId][eventId]
           impact == calculateScoreImpact(event.event_type, event.channel,
                                          ruleArgument(scoringRules), NoMetadata)
       IN  Begin(p, [NoCall EXCEPT !.op = "save_event", !.leadId = leadId,
                                   !.eventId = eventId,
                                   !.scoringRules = scoringRules],
                 [NoLocal EXCEPT !.lead = leadId,
                                 !.event = [event EXCEPT !.score_impact = impact]],
                 "ee_save")

\* save(): UPDATE engagement_events SET ..., score_impact = $6 WHERE id = $7
SaveEngagementEvent(p) ==
    /\ pc[p] = "ee_save"
    /\ engagement_events' =
          [engagement_events EXCEPT ![local[p].lead][call[p].eventId] = local[p].event]
    /\ Finish(p, local[p], [NoResult EXCEPT !.leadId = local[p].lead,
                                            !.event = local[p].event])
    /\ UNCHANGED <<leads, stage_transitions, lead_scores, call, txn, opsStarted,
                   clock, failures, product_configs, productConfigs, pool>>

(***************************************************************************)
(* The routes that write a lead: POST /leads/:id/stage through             *)
(* Lead.progressStage, PUT /leads/:id through Lead.save.  The id is a      *)
(* well-formed UUID and the body names a stage.  res.status(404) and        *)
(* res.status(400) are responses: nothing is thrown.                       *)
(***************************************************************************)
PostStageCall(p, leadId, stage) ==
    Begin(p, [NoCall EXCEPT !.op = "post_stage", !.leadId = leadId,
                            !.newStage = stage],
          [NoLocal EXCEPT !.lead = leadId, !.newStage = stage], "ps_find")

\* Lead.findById, Lead.validateStage(stage), then progressStage up to its
\* transaction: oldStage = this.stage
PostStageFindLead(p) ==
    /\ pc[p] = "ps_find"
    /\ LET id == local[p].lead
       IN  IF id \notin Leads
           THEN Finish(p, local[p], [NoResult EXCEPT !.error = "Not Found"])
           ELSE IF local[p].newStage \notin Stages
           THEN Finish(p, local[p], [NoResult EXCEPT !.error = "Validation Error"])
           ELSE /\ pc' = [pc EXCEPT ![p] = "tx_begin"]
                /\ local' = [local EXCEPT ![p].oldStage = leads[id].stage,
                                          ![p].body = "stage"]
                /\ UNCHANGED result
    /\ UNCHANGED <<tables, call, txn, opsStarted, clock, failures,
                   product_configs, productConfigs, pool>>

PutLeadCall(p, leadId, stage) ==
    Begin(p, [NoCall EXCEPT !.op = "put_lead", !.leadId = leadId,
                            !.newStage = stage],
          [NoLocal EXCEPT !.lead = leadId, !.newStage = stage], "pl_find")

\* Lead.findById, the fields of the body copied onto the lead, then save() up
\* to its query: validate() throws on a stage outside the four
PutLeadFindLead(p) ==
    /\ pc[p] = "pl_find"
    /\ LET id == local[p].lead
       IN  IF id \notin Leads
           THEN Finish(p, local[p], [NoResult EXCEPT !.error = "Not Found"])
           ELSE IF local[p].newStage \notin Stages
           THEN Finish(p, local[p], Thrown("Validation failed"))
           ELSE /\ pc' = [pc EXCEPT ![p] = "pl_save"]
                /\ local' = [local EXCEPT
                                ![p].oldStage = leads[id].stage,
                                ![p].leadRow = [leads[id] EXCEPT
                                                  !.stage = local[p].newStage]]
                /\ UNCHANGED result
    /\ UNCHANGED <<tables, call, txn, opsStarted, clock, failures,
                   product_configs, productConfigs, pool>>

\* UPDATE leads SET ..., stage = $4, engagement_score = $5, ... WHERE id = $10:
\* one statement outside any transaction, every column from the lead object
PutLeadSave(p) ==
    /\ pc[p] = "pl_save"
    /\ ~RowLocked(p, local[p].lead)
    /\ leads' = [leads EXCEPT ![local[p].lead] = local[p].leadRow]
    /\ Finish(p, local[p], [NoResult EXCEPT !.success = TRUE,
                                            !.leadId = local[p].lead,
                                            !.oldStage = local[p].oldStage,
                                            !.newStage = local[p].newStage])
    /\ UNCHANGED <<engagement_events, stage_transitions, lead_scores, call, txn,
                   opsStarted, clock, failures, product_configs, productConfigs, pool>>

(***************************************************************************)
(* StageTransitionEngine.isValidTransition and getNextStages called on     *)
(* their own: both are synchronous.                                        *)
(***************************************************************************)
IsValidTransitionCall(p, fromStage, toStage) ==
    /\ CanStart(p)
    /\ opsStarted' = opsStarted + 1
    /\ call' = [call EXCEPT ![p] = [NoCall EXCEPT !.op = "is_valid",
                                                  !.fromStage = fromStage,
                                                  !.newStage = toStage]]
    /\ local' = [local EXCEPT ![p] = NoLocal]
    /\ pc' = [pc EXCEPT ![p] = "done"]
    /\ result' = [result EXCEPT ![p] =
                     IF fromStage = InheritedKey
                     THEN Thrown("TypeError")
                     ELSE [NoResult EXCEPT
                             !.valid = isValidTransition(fromStage, toStage)]]
    /\ UNCHANGED <<tables, txn, failures, clock, product_configs, productConfigs, pool>>

\* getNextStages(currentStage), for a stage name or a name that is no property
GetNextStagesCall(p, currentStage) ==
    /\ CanStart(p)
    /\ opsStarted' = opsStarted + 1
    /\ call' = [call EXCEPT ![p] = [NoCall EXCEPT !.op = "next_stages",
                                                  !.fromStage = currentStage]]
    /\ local' = [local EXCEPT ![p] = NoLocal]
    /\ pc' = [pc EXCEPT ![p] = "done"]
    /\ result' = [result EXCEPT ![p] =
                     [NoResult EXCEPT !.stages = getNextStages(currentStage)]]
    /\ UNCHANGED <<tables, txn, failures, clock, product_configs, productConfigs, pool>>

\* getRecommendedStage(score, scoringRules): synchronous
GetRecommendedStageCall(p, score, scoringRules) ==
    /\ CanStart(p)
    /\ opsStarted' = opsStarted + 1
    /\ call' = [call EXCEPT ![p] = [NoCall EXCEPT !.op = "recommend",
                                                  !.score = score,
                                                  !.thresholds = scoringRules]]
    /\ local' = [local EXCEPT ![p] = NoLocal]
    /\ pc' = [pc EXCEPT ![p] = "done"]
    /\ result' = [result EXCEPT ![p] =
                     [NoResult EXCEPT !.recommended_stage =
                                         getRecommendedStage(score, scoringRules)]]
    /\ UNCHANGED <<tables, txn, failures, clock, product_configs, productConfigs, pool>>

(***************************************************************************)
(* ScoringEngine.checkQualificationStatus and batchUpdateScores, for leads *)
(* whose product has no row in product_configs.                            *)
(***************************************************************************)
CheckQualificationStatusCall(p, leadId) ==
    Begin(p, [NoCall EXCEPT !.op = "qualification", !.leadId = leadId],
          [NoLocal EXCEPT !.lead = leadId], "cq_find")

\* checkQualificationStatus writing the recommended stage to the lead
CheckQualificationAppliesStage(p) ==
    /\ pc[p] = "cq_find"
    /\ LET id == local[p].lead
       IN  IF id \notin Leads
           THEN /\ Finish(p, local[p], Thrown("Lead not found"))
                /\ UNCHANGED tables
           ELSE LET recommended ==
                       getRecommendedStage(leads[id].engagement_score,
                                           defaultScoringRules)
                IN  /\ Finish(p, local[p],
                              [NoResult EXCEPT
                                  !.leadId = id,
                                  !.oldScore = leads[id].engagement_score,
                                  !.currentStage = leads[id].stage,
                                  !.recommended_stage = recommended])
                    /\ leads' = [leads EXCEPT ![id].stage = recommended]
                    /\ UNCHANGED <<engagement_events, stage_transitions,
                                   lead_scores>>
    /\ UNCHANGED <<call, txn, opsStarted, clock, failures,
                   product_configs, productConfigs, pool>>

\* Lead.findById of checkQualificationStatus and the object it returns
CheckQualificationFindLead(p) ==
    /\ pc[p] = "cq_find"
    /\ LET id == local[p].lead
       IN  IF id \notin Leads
           THEN Finish(p, local[p], Thrown("Lead not found"))
           ELSE Finish(p, local[p],
                       [NoResult EXCEPT
                           !.leadId = id,
                           !.oldScore = leads[id].engagement_score,
                           !.currentStage = leads[id].stage,
                           !.recommended_stage =
                              getRecommendedStage(leads[id].engagement_score,
                                                  defaultScoringRules)])
    /\ UNCHANGED <<tables, call, txn, opsStarted, clock, failures,
                   product_configs, productConfigs, pool>>

\* batchUpdateScores(leadIds): updateLeadScore of each element in turn
BatchUpdateScoresCall(p, leadIds) ==
    Begin(p, [NoCall EXCEPT !.op = "batch_scores", !.leadIds = leadIds],
          [NoLocal EXCEPT !.lead = leadIds[1], !.idx = 1], "us_find")

(***************************************************************************)
(* EngagementEvent.processAndUpdateLeadScore on an event not yet stored    *)
(* and Lead.updateEngagementScore.  What the caller passes as score_impact *)
(* and as newScore is a JavaScript number: it is kept in hundredths until  *)
(* it is validated or reaches an INTEGER column.                           *)
(***************************************************************************)
ProcessAndUpdateLeadScoreCall(p, leadId, eventData) ==
    Begin(p, [NoCall EXCEPT !.op = "increment", !.leadId = leadId,
                            !.eventData = eventData],
          [NoLocal EXCEPT !.lead = leadId, !.body = "increment"], "tx_begin")

\* INSERT INTO engagement_events (..., score_impact): the column is INTEGER
IncrementInsertEvent(p) ==
    /\ pc[p] = "tx_insert"
    /\ LET impact == call[p].eventData.score_impact
           event == [call[p].eventData EXCEPT !.score_impact = impact \div Scale]
       IN  IF impact % Scale = 0
           THEN /\ txn' = [txn EXCEPT ![p] =
                             Append(@, [table |-> "engagement_events",
                                        id |-> local[p].lead, row |-> event])]
                /\ local' = [local EXCEPT ![p].event = event]
                /\ pc' = [pc EXCEPT ![p] = "tx_select"]
           ELSE /\ pc' = [pc EXCEPT ![p] = "tx_rollback"]
                /\ local' = [local EXCEPT ![p].error = "invalid input syntax"]
                /\ UNCHANGED txn
    /\ UNCHANGED <<tables, call, result, opsStarted, clock, failures,
                   product_configs, productConfigs, pool>>

\* SELECT * FROM leads WHERE id = $1 on the client of the transaction, without
\* FOR UPDATE, then newScore = lead.engagement_score + this.score_impact
IncrementSelectLead(p) ==
    /\ pc[p] = "tx_select"
    /\ LET stored == leads[local[p].lead].engagement_score
       IN  local' = [local EXCEPT ![p].oldScore = stored,
                                  ![p].newScore = stored + local[p].event.score_impact]
    /\ pc' = [pc EXCEPT ![p] = "tx_score"]
    /\ UNCHANGED <<tables, call, txn, result, opsStarted, clock, failures,
                   product_configs, productConfigs, pool>>

\* Lead.updateEngagementScore(newScore) on a lead read from the store:
\* validateEngagementScore, then the transaction
UpdateEngagementScoreCall(p, leadId, newScore) ==
    IF newScore % Scale = 0 /\ newScore >= 0
    THEN Begin(p, [NoCall EXCEPT !.op = "set_score", !.leadId = leadId],
               [NoLocal EXCEPT !.lead = leadId, !.body = "score",
                               !.oldScore = leads[leadId].engagement_score,
                               !.newScore = newScore \div Scale], "tx_begin")
    ELSE /\ CanStart(p)
         /\ opsStarted' = opsStarted + 1
         /\ call' = [call EXCEPT ![p] = [NoCall EXCEPT !.op = "set_score",
                                                       !.leadId = leadId]]
         /\ local' = [local EXCEPT ![p] = NoLocal]
         /\ pc' = [pc EXCEPT ![p] = "done"]
         /\ result' = [result EXCEPT ![p] = Thrown("Invalid engagement score")]
         /\ UNCHANGED <<tables, txn, failures, clock, product_configs,
                        productConfigs, pool>>

(***************************************************************************)
(* StageTransitionEngine.getTransitionHistory.                             *)
(***************************************************************************)
\* the answers of SELECT * FROM stage_transitions WHERE lead_id = $1 ORDER BY
\* transition_at ASC: rows of equal time come in any order
getTransitionHistoryOldestFirst(rows, leadId) ==
    LET matching == {i \in DOMAIN rows : rows[i].lead_id = leadId}
        n == Cardinality(matching)
        orders == {f \in [1 .. n -> matching] :
                     /\ \A i, j \in 1 .. n : i # j => f[i] # f[j]
                     /\ \A i, j \in 1 .. n :
                           i < j => rows[f[i]].transition_at
                                       <= rows[f[j]].transition_at}
    IN  {[k \in 1 .. n |-> rows[f[k]]] : f \in orders}

\* the answers of SELECT * FROM stage_transitions WHERE lead_id = $1 ORDER BY
\* transition_at DESC: rows of equal time come in any order
getTransitionHistory(rows, leadId) ==
    LET matching == {i \in DOMAIN rows : rows[i].lead_id = leadId}
        n == Cardinality(matching)
        orders == {f \in [1 .. n -> matching] :
                     /\ \A i, j \in 1 .. n : i # j => f[i] # f[j]
                     /\ \A i, j \in 1 .. n :
                           i < j => rows[f[i]].transition_at
                                       >= rows[f[j]].transition_at}
    IN  {[k \in 1 .. n |-> rows[f[k]]] : f \in orders}

GetTransitionHistoryCall(p, leadId) ==
    Begin(p, [NoCall EXCEPT !.op = "history", !.leadId = leadId],
          [NoLocal EXCEPT !.lead = leadId], "th_query")

\* the query of getTransitionHistory and the return of its rows
GetTransitionHistoryQuery(p) ==
    /\ pc[p] = "th_query"
    /\ \E rows \in getTransitionHistory(stage_transitions, local[p].lead) :
          Finish(p, local[p], [NoResult EXCEPT !.leadId = local[p].lead,
                                              !.rows = rows])
    /\ UNCHANGED <<tables, call, txn, opsStarted, clock, failures,
                 product_configs, productConfigs, pool>>

(***************************************************************************)
(* The transition engine under concurrent callers.                         *)
(***************************************************************************)
BatchInputs ==
    UNION {[1 .. n -> LeadIds] : n \in 0 .. MaxBatch}

Step(p) ==
    \/ TxBegin(p)
    \/ UpdateLeadStage(p)
    \/ InsertStageTransition(p)
    \/ TxCommit(p)
    \/ TxRollback(p)
    \/ StoreFails(p)
    \/ ExecuteFindLead(p)
    \/ EvaluateFindLead(p)
    \/ EvaluateGetEvents(p)

\* single-lead calls address L1 or a lead that does not exist
CallIds == {"L1", NoLead}

\* the validated calls of the transition engine
Next ==
    \E p \in Procs :
       \/ \E s \in StageInputs : ExecuteTransitionCall(p, "L1", s)
       \/ \E id \in CallIds, c \in ProductConfigs : AutoProgressLeadCall(p, id, c)
       \/ \E ids \in BatchInputs, c \in ProductConfigs :
             BatchAutoProgressCall(p, ids, c)
       \/ Step(p)

Spec == Init /\ [][Next]_vars

(***************************************************************************)
(* The calls that write a lead value and its history row, with             *)
(* forceTransition, under concurrent callers.                              *)
(***************************************************************************)
StepScore(p) ==
    \/ UpdateFindLead(p)
    \/ UpdateCalculateScore(p)
    \/ UpdateLeadEngagementScore(p)
    \/ InsertLeadScore(p)

StepStage(p) ==
    \/ TxBegin(p)
    \/ UpdateLeadStage(p)
    \/ InsertStageTransition(p)
    \/ TxCommit(p)
    \/ TxRollback(p)
    \/ StoreFails(p)
    \/ ExecuteFindLead(p)
    \/ ForceFindLead(p)

NextWrites ==
    \E p \in Procs :
       \/ \E s \in StageInputs : ExecuteTransitionCall(p, "L1", s)
       \/ \E s \in StageInputs : ForceTransitionCall(p, "L1", s)
       \/ UpdateLeadScoreCall(p, "L1")
       \/ StepStage(p)
       \/ StepScore(p)

SpecWrites == Init /\ [][NextWrites]_vars

(***************************************************************************)
(* transaction(callback) on every path: BEGIN, a statement of the callback *)
(* or COMMIT rejecting, the callback throwing, and ROLLBACK rejecting.     *)
(***************************************************************************)
NextTransaction ==
    \E p \in Procs :
       \/ \E s \in StageInputs : ExecuteTransitionCall(p, "L1", s)
       \/ \E s \in StageInputs : ForceTransitionCall(p, "L1", s)
       \/ UpdateLeadScoreCall(p, "L1")
       \/ StepStage(p)
       \/ StepScore(p)
       \/ TxRollbackFails(p)

SpecTransaction == Init /\ [][NextTransaction]_vars

(***************************************************************************)
(* calculateLeadScore over event histories of every shape the scoring      *)
(* rules tell apart.                                                       *)
(***************************************************************************)
\* one login inside the recent-activity window; one inside the decay-free
\* window but not recent
oneRecentLogin == <<Event("login", "product", Now - 2, FALSE, FALSE)>>
oneLogin == <<Event("login", "product", Now - 48, FALSE, FALSE)>>

\* every event older than the engagement window
expiredEvents ==
    <<Event("login", "product", Now - 300, FALSE, FALSE),
      Event("email_click", "email", Now - 200, TRUE, FALSE)>>

\* two logins recorded with the same timestamp after an earlier one
simultaneousLogins ==
    <<Event("login", "product", Now - 30, FALSE, FALSE),
      Event("login", "product", Now - 2, TRUE, FALSE),
      Event("login", "product", Now - 2, FALSE, FALSE)>>

\* seven emails opened on one day, an hour apart
sevenOpens ==
    [i \in 1 .. 7 |-> Event("email_open", "email", Now - (8 - i), FALSE, FALSE)]

CalcHistories ==
    {<<>>, oneRecentLogin, oneLogin, expiredEvents, simultaneousLogins,
     threeEvents, eightEvents, sevenOpens}

InitCalc ==
    /\ \E history \in CalcHistories :
          engagement_events = [l \in Leads |-> IF l = "L1" THEN history
                                               ELSE threeEvents]
    /\ leads = [l \in Leads |-> [stage |-> "User", engagement_score |-> 0]]
    /\ stage_transitions = <<>>
    /\ lead_scores = <<>>
    /\ pc = [p \in Procs |-> "idle"]
    /\ call = [p \in Procs |-> NoCall]
    /\ local = [p \in Procs |-> NoLocal]
    /\ txn = [p \in Procs |-> <<>>]
    /\ result = [p \in Procs |-> NoResult]
    /\ opsStarted = 0
    /\ failures = 0
    /\ clock = 0
    /\ product_configs = [id \in {ConfiguredProduct} |-> productScoringRules]
    /\ productConfigs = [id \in ProductIds |->
                           [has |-> FALSE, rules |-> defaultScoringRules]]
    /\ pool = [p \in Procs |-> NoClient]

NextCalc ==
    \E p \in Procs :
       \/ \E id \in CallIds, productId \in ProductIds :
             CalculateLeadScoreCall(p, id, productId)
       \/ \E events \in CalcHistories, scoringRules \in RuleArguments :
             CalculateEngagementScoreCall(p, events, scoringRules)
       \/ \E eventType \in ImpactTypes, channel \in ImpactChannels,
             scoringRules \in ImpactRules, metadata \in ImpactMetadata :
             CalculateScoreImpactCall(p, eventType, channel, scoringRules, metadata)
       \/ GetScoringRules(p)
       \/ CalculateLeadScoreEvents(p)
       \/ StoreFails(p)

SpecCalc == InitCalc /\ [][NextCalc]_vars

(***************************************************************************)
(* calculateScoreImpact over three event types, both kinds of channel,     *)
(* three rules arguments and repeat counts up to ten.                      *)
(***************************************************************************)
NextImpact ==
    \E p \in Procs :
       \E eventType \in {"login", "email_open", "webinar"},
          channel \in ImpactChannels,
          scoringRules \in {"undefined", "halved", "unit"},
          metadata \in [high_value_action : BOOLEAN, repeat_engagement : BOOLEAN,
                        engagement_count : {1, 2, 3, 4, 10}] :
          CalculateScoreImpactCall(p, eventType, channel, scoringRules, metadata)

SpecImpact == InitCalc /\ [][NextImpact]_vars

(***************************************************************************)
(* calculateLeadScore while the scoring_rules of the configured product    *)
(* are edited, the cache is cleared and stored events are saved again.     *)
(***************************************************************************)
NextRules ==
    \/ \E p \in Procs :
          \/ \E id \in CallIds, productId \in ProductIds :
                CalculateLeadScoreCall(p, id, productId)
          \/ \E id \in Leads, eventId \in 1 .. 3, scoringRules \in ImpactRules :
                UpdateScoreImpactCall(p, id, eventId, scoringRules)
          \/ GetScoringRules(p)
          \/ CalculateLeadScoreEvents(p)
          \/ SaveEngagementEvent(p)
          \/ StoreFails(p)
    \/ \E productId \in ProductIds : clearCache(productId)
    \/ \E scoring_rules \in {productScoringRules,
                             [login_points |-> 30, repeat_engagement_decay |-> 50]} :
          UpdateProductConfig(ConfiguredProduct, scoring_rules)

SpecRules == InitCalc /\ [][NextRules]_vars

(***************************************************************************)
(* Every writer of leads.stage under concurrent callers: the two engine    *)
(* calls and the two routes.                                               *)
(***************************************************************************)
NextRoutes ==
    \E p \in Procs :
       \/ \E s \in StageInputs : ExecuteTransitionCall(p, "L1", s)
       \/ \E s \in StageInputs : ForceTransitionCall(p, "L1", s)
       \/ \E id \in CallIds, s \in StageInputs : PostStageCall(p, id, s)
       \/ \E id \in CallIds, s \in StageInputs : PutLeadCall(p, id, s)
       \/ PostStageFindLead(p)
       \/ PutLeadFindLead(p)
       \/ PutLeadSave(p)
       \/ StepStage(p)

SpecRoutes == Init /\ [][NextRoutes]_vars

(***************************************************************************)
(* The adjacency table asked about every pair of the four stages, a name   *)
(* that is no stage and a name inherited from Object.prototype.            *)
(***************************************************************************)
NextGraph ==
    \E p \in Procs :
       \/ \E fromStage \in StageInputs \cup {InheritedKey}, toStage \in StageInputs :
             IsValidTransitionCall(p, fromStage, toStage)
       \/ \E currentStage \in StageInputs : GetNextStagesCall(p, currentStage)
       \/ \E score \in {0, 9, 10, 11, 49, 50, 51, 149, 150, 151, 299, 300, 301},
             scoringRules \in {defaultScoringRules,
                               [defaultScoringRules EXCEPT
                                   !.engaged_lead_threshold = 10,
                                   !.qualified_lead_threshold = 50,
                                   !.customer_threshold = 51]} :
             GetRecommendedStageCall(p, score, scoringRules)

SpecGraph == Init /\ [][NextGraph]_vars

(***************************************************************************)
(* Every writer of leads.engagement_score under concurrent callers: the    *)
(* engine's two calls, the incremental update of the event model and the   *)
(* update of the lead model, with impacts of 10, -20 and 2.5 points.       *)
(***************************************************************************)
NextScores ==
    \E p \in Procs :
       \/ UpdateLeadScoreCall(p, "L1")
       \/ ProcessEngagementEventCall(p, "L1", Event("login", "product", Now, FALSE, FALSE))
       \/ \E impact \in {10 * Scale, -20 * Scale, 250} :
             ProcessAndUpdateLeadScoreCall(
                p, "L1", [Event("login", "product", Now, FALSE, FALSE)
                             EXCEPT !.score_impact = impact])
       \/ \E newScore \in {40 * Scale, -5 * Scale, 250} :
             UpdateEngagementScoreCall(p, "L1", newScore)
       \/ \E id \in CallIds : CheckQualificationStatusCall(p, id)
       \/ BatchUpdateScoresCall(p, <<"L2", "L1">>)
       \/ CheckQualificationFindLead(p)
       \/ ProcessFindLead(p)
       \/ InsertEngagementEvent(p)
       \/ ProcessCalculateScore(p)
       \/ IncrementInsertEvent(p)
       \/ IncrementSelectLead(p)
       \/ StepScore(p)
       \/ TxBegin(p)
       \/ TxCommit(p)
       \/ TxRollback(p)
       \/ StoreFails(p)

SpecScores == Init /\ [][NextScores]_vars

(***************************************************************************)
(* The audit trail read back while transitions are written.                *)
(***************************************************************************)
AuditRow(leadId, from, to, forced, at) ==
    [lead_id |-> leadId, from_stage |-> from, to_stage |-> to,
     forced_transition |-> forced, transition_at |-> at]

\* the store after no transition; after three automatic progressions; and
\* after two forced transitions of L1 of which the one that began last
\* committed first
HistoryStores ==
    {[stages |-> [L1 |-> "User", L2 |-> "User"], audit |-> <<>>, clock |-> 0],
     [stages |-> [L1 |-> "Qualified_Lead", L2 |-> "Engaged_Lead"],
      audit |-> <<AuditRow("L1", "User", "Engaged_Lead", FALSE, 1),
                  AuditRow("L2", "User", "Engaged_Lead", FALSE, 2),
                  AuditRow("L1", "Engaged_Lead", "Qualified_Lead", FALSE, 3)>>,
      clock |-> 3],
     [stages |-> [L1 |-> "Qualified_Lead", L2 |-> "User"],
      audit |-> <<AuditRow("L1", "User", "Engaged_Lead", TRUE, 2),
                  AuditRow("L1", "User", "Qualified_Lead", TRUE, 1)>>,
      clock |-> 2]}

InitHistory ==
    /\ \E store \in HistoryStores :
          /\ leads = [l \in Leads |-> [stage |-> store.stages[l],
                                       engagement_score |-> 320]]
          /\ stage_transitions = store.audit
          /\ clock = store.clock
    /\ product_configs = [id \in {ConfiguredProduct} |-> productScoringRules]
    /\ productConfigs = [id \in ProductIds |->
                           [has |-> FALSE, rules |-> defaultScoringRules]]
    /\ pool = [p \in Procs |-> NoClient]
    /\ engagement_events = [l \in Leads |-> eightEventsConverted]
    /\ lead_scores = <<>>
    /\ pc = [p \in Procs |-> "idle"]
    /\ call = [p \in Procs |-> NoCall]
    /\ local = [p \in Procs |-> NoLocal]
    /\ txn = [p \in Procs |-> <<>>]
    /\ result = [p \in Procs |-> NoResult]
    /\ opsStarted = 0
    /\ failures = 0

NextHistory ==
    \E p \in Procs :
       \/ \E s \in StageInputs : ExecuteTransitionCall(p, "L1", s)
       \/ \E s \in StageInputs : ForceTransitionCall(p, "L1", s)
       \/ \E id \in LeadIds : GetTransitionHistoryCall(p, id)
       \/ GetTransitionHistoryQuery(p)
       \/ StepStage(p)

SpecHistory == InitHistory /\ [][NextHistory]_vars

(***************************************************************************)
(* The scoring engine under concurrent callers.                            *)
(***************************************************************************)
EventInputs ==
    {Event("login", "product", Now, FALSE, FALSE),
     Event("email_click", "email", Now, TRUE, FALSE)}

NextScoring ==
    \E p \in Procs :
       \/ \E id \in CallIds : UpdateLeadScoreCall(p, id)
       \/ \E id \in CallIds, e \in EventInputs : ProcessEngagementEventCall(p, id, e)
       \/ ProcessFindLead(p)
       \/ InsertEngagementEvent(p)
       \/ ProcessCalculateScore(p)
       \/ StepScore(p)
       \/ TxBegin(p)
       \/ TxCommit(p)
       \/ TxRollback(p)
       \/ StoreFails(p)

SpecScoring == Init /\ [][NextScoring]_vars

(***************************************************************************)
(* evaluateProgression and autoProgressLead over lead rows, event rows and *)
(* progression rules of every kind.                                        *)
(***************************************************************************)
\* events older than every time window
staleEvents ==
    <<Event("login", "product", 60, FALSE, FALSE),
      Event("email_open", "email", 50, FALSE, FALSE),
      Event("whatsapp_reply", "whatsapp", 40, FALSE, FALSE)>>

EvalScores == {49, 50, 150, 300}
EvalHistories == {<<>>, threeEvents, eightEvents, eightEventsConverted, staleEvents}

InitEval ==
    /\ \E stage \in Stages, score \in EvalScores, events \in EvalHistories :
          /\ leads = [l \in Leads |->
                        IF l = "L1"
                        THEN [stage |-> stage, engagement_score |-> score]
                        ELSE [stage |-> "User", engagement_score |-> 320]]
          /\ engagement_events = [l \in Leads |->
                                    IF l = "L1" THEN events
                                    ELSE eightEventsConverted]
    /\ stage_transitions = <<>>
    /\ lead_scores = <<>>
    /\ pc = [p \in Procs |-> "idle"]
    /\ call = [p \in Procs |-> NoCall]
    /\ local = [p \in Procs |-> NoLocal]
    /\ txn = [p \in Procs |-> <<>>]
    /\ result = [p \in Procs |-> NoResult]
    /\ opsStarted = 0
    /\ failures = 0
    /\ clock = 0
    /\ product_configs = [id \in {ConfiguredProduct} |-> productScoringRules]
    /\ productConfigs = [id \in ProductIds |->
                           [has |-> FALSE, rules |-> defaultScoringRules]]
    /\ pool = [p \in Procs |-> NoClient]

NextEval ==
    \E p \in Procs :
       \/ \E id \in CallIds, c \in ProductConfigs \cup CustomConfigs :
             EvaluateProgressionCall(p, id, c)
       \/ \E c \in ProductConfigs \cup CustomConfigs :
             AutoProgressLeadCall(p, "L1", c)
       \/ Step(p)

SpecEval == InitEval /\ [][NextEval]_vars

\* evaluateProgression alone, under the default rules and under rules whose
\* time windows come with min_events 0 and 2
NextWindow ==
    \E p \in Procs :
       \/ \E c \in {"null", "window"} : EvaluateProgressionCall(p, "L1", c)
       \/ EvaluateFindLead(p)
       \/ EvaluateGetEvents(p)
       \/ StoreFails(p)

SpecWindow == InitEval /\ [][NextWindow]_vars

(***************************************************************************)
(* autoProgressLead called again and again on one lead, each call after    *)
(* the one before has returned.                                            *)
(***************************************************************************)
MaxCalls == 5

\* autoProgressLead(leadId) while no other call runs
AutoProgressLeadInTurn(p, leadId) ==
    /\ p = 1
    /\ \A q \in Procs : Free(q)
    /\ opsStarted < MaxCalls
    /\ opsStarted' = opsStarted + 1
    /\ call' = [call EXCEPT ![p] = [NoCall EXCEPT !.op = "auto", !.leadId = leadId]]
    /\ local' = [local EXCEPT ![p] = [NoLocal EXCEPT !.lead = leadId]]
    /\ pc' = [pc EXCEPT ![p] = "ep_find"]
    /\ result' = [result EXCEPT ![p] = NoResult]
    /\ UNCHANGED <<tables, txn, failures, clock, product_configs, productConfigs, pool>>

\* the lead starts in User with score 320, eight events of the last seven
\* days and a conversion among them
InitProgress ==
    /\ Init
    /\ leads["L1"] = [stage |-> "User", engagement_score |-> 320]

NextProgress ==
    \E p \in Procs :
       \/ AutoProgressLeadInTurn(p, "L1")
       \/ EvaluateFindLead(p)
       \/ EvaluateGetEvents(p)
       \/ ExecuteFindLead(p)
       \/ TxBegin(p)
       \/ UpdateLeadStage(p)
       \/ InsertStageTransition(p)
       \/ TxCommit(p)
       \/ TxRollback(p)
       \/ StoreFails(p)

SpecProgress == InitProgress /\ [][NextProgress]_vars

(***************************************************************************)
(* Properties of executeTransition.                                        *)
(***************************************************************************)
\* an executeTransition call of process p has ended, on a lead that exists
\* and with no store failure
ExecuteEnded(p) ==
    /\ call[p].op = "exec"
    /\ pc[p] = "done"
    /\ call[p].leadId \in Leads
    /\ result[p].error \notin {"store failure", "check constraint"}

\* C1: an executeTransition call on an existing lead, the store not failing,
\* succeeds if and only if isValidTransition(from, to) holds for the stage it
\* read and the requested target; otherwise it throws the invalid-transition
\* error.
C1_ExecuteIffValid ==
    \A p \in Procs :
       ExecuteEnded(p) =>
          /\ result[p].success <=>
                isValidTransition(result[p].oldStage, call[p].newStage)
          /\ ~result[p].success =>
                result[p].threw /\ result[p].error = "Invalid transition"
          /\ result[p].success => ~result[p].threw

\* one call was accepted and another was rejected, one of them for a target
\* that is no stage
C1_Witness ==
    /\ ExecuteEnded(1) /\ result[1].success
    /\ ExecuteEnded(2) /\ result[2].threw
    /\ call[2].newStage = BogusStage

\* C2 (as stated): once the stored stage of a lead is Customer, no step of
\* executeTransition, autoProgressLead or batchAutoProgress changes it.
C2_CustomerNeverRegresses ==
    [][\A l \in Leads :
          leads[l].stage = "Customer" => leads'[l].stage = "Customer"]_vars

IsPrefix(s, t) == Len(s) <= Len(t) /\ SubSeq(t, 1, Len(s)) = s

\* the results batchAutoProgress has pushed so far
BatchResults(p) ==
    IF pc[p] = "done" THEN result[p].results ELSE local[p].results

\* process p completes a successful executeTransition in this step, directly
\* or inside autoProgressLead or batchAutoProgress
Succeeds(p) ==
    /\ pc[p] = "tx_commit"
    /\ local[p].body = "stage"
    /\ ~local[p].forced
    /\ pc'[p] \notin {"tx_commit", "tx_rollback"}

\* what the call that succeeds in this step returns
SuccessResult(p) ==
    IF call[p].op = "batch"
    THEN LET rs == BatchResults(p)' IN rs[Len(rs)]
    ELSE result'[p]

\* C3: every successful executeTransition or autoProgressLead appends exactly
\* one audit row for its lead, from the stage the call read to the new stage,
\* the two being different; and no step removes or rewrites an audit row.
C3_OneAuditRowPerTransition ==
    [][/\ IsPrefix(stage_transitions, stage_transitions')
       /\ \A p \in Procs :
             Succeeds(p) =>
                LET r == SuccessResult(p)
                IN  /\ r.success
                    /\ stage_transitions' =
                          Append(stage_transitions,
                                 [lead_id |-> r.leadId, from_stage |-> r.oldStage,
                                  to_stage |-> r.newStage,
                                  forced_transition |-> FALSE,
                                  transition_at |-> local[p].txTime])
                    /\ r.oldStage # r.newStage
                    /\ r.oldStage = local[p].oldStage
                    /\ leads'[r.leadId].stage = r.newStage]_vars

\* an autoProgressLead call has progressed its lead and the row is there
C3_Witness ==
    \E p \in Procs :
       /\ call[p].op = "auto" /\ pc[p] = "done" /\ result[p].progressed
       /\ \E i \in DOMAIN stage_transitions, at \in 1 .. clock :
             stage_transitions[i] =
                [lead_id |-> result[p].leadId, from_stage |-> result[p].oldStage,
                 to_stage |-> result[p].newStage, forced_transition |-> FALSE,
                 transition_at |-> at]

\* process p is rejected by the validation in this step
Rejected(p) ==
    /\ pc[p] = "et_find"
    /\ call[p].op = "exec"
    /\ pc'[p] = "done"
    /\ result'[p].error = "Invalid transition"

\* C4: when executeTransition is rejected as invalid, the call has issued no
\* statement and the step leaves every table as it was.
C4_RejectedWritesNothing ==
    [][\A p \in Procs :
          Rejected(p) => /\ UNCHANGED tables
                         /\ txn[p] = <<>> /\ txn'[p] = <<>>]_vars

\* executeTransition(L1, Customer) was rejected while the lead is in User
C4_Witness ==
    \E p \in Procs :
       /\ ExecuteEnded(p)
       /\ result[p].error = "Invalid transition"
       /\ result[p].oldStage = "User" /\ call[p].newStage = "Customer"
       /\ leads["L1"].stage = "User"
       /\ stage_transitions = <<>>

(***************************************************************************)
(* Atomicity of the two writes of a transaction.                           *)
(***************************************************************************)
Last(s) == s[Len(s)]

\* a call comes back with an error out of its transaction in this step
FailsInTransaction(p) ==
    /\ pc[p] \in InTransaction \cup {"tx_rollback"}
    /\ pc'[p] = "done"
    /\ result'[p].threw

\* C5: in executeTransition, forceTransition and updateLeadScore the write of
\* the value and the insert of its record reach the tables in one step or not
\* at all: a step that changes a stage appends the one audit row of that
\* change, a step that appends an audit row sets that stage, likewise for the
\* score and lead_scores, and a call that fails in its transaction leaves the
\* tables as they were.
C5_ValueAndRecordAtomic ==
    [][/\ \A l \in Leads :
            leads'[l].stage # leads[l].stage =>
               /\ Len(stage_transitions') = Len(stage_transitions) + 1
               /\ Last(stage_transitions').lead_id = l
       /\ stage_transitions' # stage_transitions =>
            /\ Len(stage_transitions') = Len(stage_transitions) + 1
            /\ IsPrefix(stage_transitions, stage_transitions')
            /\ LET r == Last(stage_transitions')
               IN  /\ leads'[r.lead_id].stage = r.to_stage
                   /\ \E p \in Procs : /\ pc[p] = "tx_commit"
                                       /\ local[p].lead = r.lead_id
                                       /\ local[p].newStage = r.to_stage
                                       /\ local[p].oldStage = r.from_stage
            /\ UNCHANGED lead_scores
       /\ \A l \in Leads :
            leads'[l].engagement_score # leads[l].engagement_score =>
               /\ Len(lead_scores') = Len(lead_scores) + 1
               /\ Last(lead_scores').lead_id = l
       /\ lead_scores' # lead_scores =>
            /\ Len(lead_scores') = Len(lead_scores) + 1
            /\ IsPrefix(lead_scores, lead_scores')
            /\ LET r == Last(lead_scores')
               IN  leads'[r.lead_id].engagement_score = r.score
            /\ UNCHANGED stage_transitions
       /\ \A p \in Procs : FailsInTransaction(p) => UNCHANGED tables]_vars

\* one call has committed a score with its record while another, having
\* issued the first of its two statements, is about to roll back
C5_Witness ==
    \E p, q \in Procs :
       /\ pc[p] = "tx_rollback" /\ Len(txn[p]) = 1
       /\ pc[q] = "done" /\ result[q].changed
       /\ lead_scores # <<>>

(***************************************************************************)
(* Concurrent callers on one lead.                                         *)
(***************************************************************************)
\* process p has read lead l and has not yet committed its write
Mutating(p, l) == pc[p] \in InTransaction /\ local[p].lead = l

\* C6 (as stated): at most one operation on a lead is between its read of
\* the lead and the commit of its write.
C6_OneMutationInFlight ==
    \A l \in Leads : Cardinality({p \in Procs : Mutating(p, l)}) <= 1

\* every call that was started has returned, all of them were scoring calls
\* on lead L1, and none of them failed
ScoringCallsCompleted ==
    /\ opsStarted >= 1
    /\ failures = 0
    /\ \A p \in Procs :
          /\ Free(p)
          /\ pc[p] = "done" => call[p].leadId = "L1" /\ ~result[p].threw
    /\ \E p \in Procs : pc[p] = "done" /\ call[p].op = "event"

\* C7 (as stated): once processEngagementEvent and the scoring calls running
\* beside it on the same lead have all completed, the stored
\* engagement_score is the score calculateLeadScore yields for the stored
\* events.
C7_NoLostScoreUpdate ==
    ScoringCallsCompleted =>
       leads["L1"].engagement_score \in
          calculateLeadScore(engagement_events["L1"], defaultScoringRules)

(***************************************************************************)
(* Properties of batchAutoProgress.                                        *)
(***************************************************************************)
BatchEnded(p) == call[p].op = "batch" /\ pc[p] = "done"

BatchRunning(p) == call[p].op = "batch" /\ ~Free(p)

\* one result per element of leadIds, in the order of leadIds
Aligned(results, leadIds) ==
    /\ Len(results) = Len(leadIds)
    /\ \A i \in DOMAIN leadIds : results[i].leadId = leadIds[i]

Occurrences(s, id) == Cardinality({i \in DOMAIN s : s[i] = id})

\* C8 (as stated): for every input list, batchAutoProgress returns one
\* result per input element, results[i].leadId = leadIds[i], and no lead id
\* occurs twice in the results.
C8_AlignedAndNoDuplicates ==
    \A p \in Procs :
       BatchEnded(p) =>
          LET results == result[p].results
          IN  /\ Aligned(results, call[p].leadIds)
              /\ \A i, j \in DOMAIN results :
                    results[i].leadId = results[j].leadId => i = j

\* C8 (amended): batchAutoProgress returns one result per input element,
\* results[i].leadId = leadIds[i], and a lead id occurs in the results as
\* often as it occurs in leadIds: never twice when leadIds names it once.
C8_AlignedWithInput ==
    \A p \in Procs :
       BatchEnded(p) =>
          LET results == result[p].results
              ids == [i \in DOMAIN results |-> results[i].leadId]
          IN  /\ ~result[p].threw
              /\ Aligned(results, call[p].leadIds)
              /\ \A id \in LeadIds :
                    Occurrences(ids, id) = Occurrences(call[p].leadIds, id)

\* a batch over two different leads, the first of them unknown, has returned
\* two results
C8_Witness ==
    \E p \in Procs :
       /\ BatchEnded(p)
       /\ call[p].leadIds = <<NoLead, "L2">>
       /\ Len(result[p].results) = 2
       /\ result[p].results[1].leadId # result[p].results[2].leadId

\* the autoProgressLead of the current element of batch p throws in this step
ElementFails(p) ==
    /\ BatchRunning(p)
    /\ Len(BatchResults(p)') = Len(local[p].results) + 1
    /\ Last(BatchResults(p)').threw

\* C9: when the processing of an element throws, its result is {leadId,
\* progressed: false, error}, the batch does not throw, and the next element
\* is taken up from the locals a batch without the failure would give it;
\* the batch ends with a result for every element.
C9_FailuresAreIsolated ==
    [][\A p \in Procs :
          /\ ElementFails(p) =>
                LET idx == local[p].idx
                    entry == Last(BatchResults(p)')
                IN  /\ entry = [Thrown(entry.error) EXCEPT
                                   !.leadId = call[p].leadIds[idx],
                                   !.oldStage = entry.oldStage,
                                   !.newStage = entry.newStage]
                    /\ entry.error \in {"Lead not found", "Invalid transition",
                                        "store failure"}
                    /\ ~entry.progressed /\ ~entry.success
                    /\ IF idx < Len(call[p].leadIds)
                       THEN /\ pc'[p] = "ep_find"
                            /\ local'[p] =
                                  [NoLocal EXCEPT
                                      !.lead = call[p].leadIds[idx + 1],
                                      !.idx = idx + 1,
                                      !.results = BatchResults(p)']
                            /\ txn'[p] = <<>>
                       ELSE pc'[p] = "done"
          /\ (call'[p].op = "batch" /\ pc'[p] = "done") =>
                /\ ~result'[p].threw
                /\ Len(result'[p].results) = Len(call'[p].leadIds)]_vars

\* a batch whose first element threw has gone on to progress its second
C9_Witness ==
    \E p \in Procs :
       /\ BatchEnded(p)
       /\ Len(result[p].results) = 2
       /\ result[p].results[1].threw
       /\ result[p].results[2].progressed
       /\ leads[result[p].results[2].leadId].stage = result[p].results[2].newStage

\* the lead ids of the elements a batch has progressed so far, in input order
RECURSIVE ProgressedIds(_)
ProgressedIds(results) ==
    IF results = <<>> THEN <<>>
    ELSE LET rest == ProgressedIds(SubSeq(results, 1, Len(results) - 1))
         IN  IF Last(results).progressed
             THEN Append(rest, Last(results).leadId)
             ELSE rest

\* the statements process p has issued in its open transaction are on lead l
StatementsOn(p, l) ==
    \A i \in DOMAIN txn[p] :
       IF txn[p][i].table \in {"leads", "engagement_events"}
       THEN txn[p][i].id = l
       ELSE txn[p][i].row.lead_id = l

\* batch p, while it runs, works on element idx alone
OneElementInFlight(p) ==
    BatchRunning(p) =>
       /\ local[p].idx \in DOMAIN call[p].leadIds
       /\ Len(local[p].results) = local[p].idx - 1
       /\ local[p].lead = call[p].leadIds[local[p].idx]
       /\ StatementsOn(p, local[p].lead)
       /\ pc[p] \in {"ep_find", "ep_events", "et_find"} => txn[p] = <<>>

\* C10: batchAutoProgress has one element in flight: while it works on
\* element idx the results of the elements before idx, and no others, are
\* there, and its open transaction is on leadIds[idx]; an element is taken up
\* with no transaction open; the commit of the audit row of element idx comes
\* with the result of idx; and the audit rows of a batch running alone are
\* those of its progressed elements in input order.
C10_BatchIsSequential ==
    [][\A p \in Procs :
          /\ OneElementInFlight(p)'
          /\ (BatchRunning(p) /\ BatchRunning(p)') =>
                local'[p].idx \in {local[p].idx, local[p].idx + 1}
          /\ (BatchRunning(p) /\ pc[p] = "tx_commit"
                 /\ pc'[p] \notin {"tx_commit", "tx_rollback"}) =>
                /\ stage_transitions' =
                      Append(stage_transitions,
                             [lead_id |-> call[p].leadIds[local[p].idx],
                              from_stage |-> local[p].oldStage,
                              to_stage |-> local[p].newStage,
                              forced_transition |-> FALSE,
                              transition_at |-> local[p].txTime])
                /\ Len(BatchResults(p)') = local[p].idx
                /\ Last(BatchResults(p)').progressed
          /\ (call'[p].op = "batch" /\ opsStarted' = 1) =>
                [i \in DOMAIN stage_transitions' |-> stage_transitions'[i].lead_id]
                   = ProgressedIds(BatchResults(p)')]_vars

\* a batch running alone has progressed both its elements, L2 before L1, and
\* the audit rows are in that order
C10_Witness ==
    /\ BatchEnded(1) /\ opsStarted = 1
    /\ call[1].leadIds = <<"L2", "L1">>
    /\ result[1].results[1].progressed /\ result[1].results[2].progressed
    /\ Len(stage_transitions) = 2
    /\ stage_transitions[1].lead_id = "L2" /\ stage_transitions[2].lead_id = "L1"

(***************************************************************************)
(* Properties of evaluateProgression and autoProgressLead.                 *)
(***************************************************************************)
\* an evaluateProgression call of process p has returned
EvaluateReturned(p) ==
    call[p].op = "evaluate" /\ pc[p] = "done" /\ ~result[p].threw

\* condition name of a rule holds for a lead with this score and these events
ConditionHolds(name, conditions, score, events) ==
    CASE name = "min_engagement_score" -> score >= conditions.min_engagement_score
      [] name = "min_events" -> Len(events) >= conditions.min_events
      [] name = "time_window_hours" ->
            Cardinality({i \in DOMAIN events :
                            Now - events[i].timestamp <= conditions.time_window_hours})
               >= (IF "min_events" \in DOMAIN conditions
                   THEN conditions.min_events ELSE 1)
      [] name = "conversion_event" ->
            \E i \in DOMAIN events : events[i].conversion
      [] name = "required_event_types" ->
            \A k \in DOMAIN conditions.required_event_types :
               \E i \in DOMAIN events :
                  events[i].event_type = conditions.required_event_types[k]

NotEligible(p) ==
    LET rules == progressionRules(call[p].productConfig)
        row == local[p].leadRow
    IN  \/ row.stage \notin DOMAIN rules
        \/ /\ row.stage \in DOMAIN rules
           /\ \E name \in DOMAIN rules[row.stage].conditions :
                 ~ConditionHolds(name, rules[row.stage].conditions,
                                 row.engagement_score,
                                 engagement_events[local[p].lead])

\* call p gets the events of its lead in this step, the store not failing
Evaluates(p) ==
    /\ pc[p] = "ep_events"
    /\ pc'[p] # "ep_events"
    /\ result'[p].error # "store failure"

\* C12: for a lead that is not eligible, because a condition of its rule
\* fails or because its stage has no rule, evaluateProgression returns
\* canProgress = FALSE (with the no-rule reason in the second case) and
\* autoProgressLead returns progressed = FALSE; neither throws, and no step
\* of the evaluation changes a lead, an event, an audit row or a score row.
C12_NotEligibleIsNoError ==
    [][\A p \in Procs :
          /\ (Evaluates(p) /\ NotEligible(p)) =>
                /\ pc'[p] = "done"
                /\ ~result'[p].threw
                /\ ~result'[p].canProgress
                /\ ~result'[p].progressed /\ ~result'[p].success
                /\ (call[p].op = "evaluate"
                       /\ local[p].leadRow.stage
                             \notin DOMAIN progressionRules(call[p].productConfig))
                      => result'[p].reason = "No progression rule defined"
                /\ call[p].op = "auto" => result'[p].reason = "Conditions not met"
          /\ (pc[p] \in {"ep_find", "ep_events"} /\ pc'[p] # pc[p]) =>
                /\ UNCHANGED tables
                /\ txn[p] = <<>> /\ txn'[p] = <<>>]_vars

\* on a Customer lead autoProgressLead has returned progressed = FALSE and
\* evaluateProgression the no-rule reason, and nothing was written
C12_Witness ==
    /\ call[1].op = "auto" /\ pc[1] = "done"
    /\ ~result[1].threw /\ ~result[1].progressed
    /\ EvaluateReturned(2) /\ call[2].leadId = "L1"
    /\ result[2].reason = "No progression rule defined"
    /\ leads["L1"].stage = "Customer"
    /\ stage_transitions = <<>>

\* C13 (as stated): the result of autoProgressLead, whether or not the lead
\* progressed, carries the evaluation of the conditions.
C13_EvaluationAlwaysIncluded ==
    \A p \in Procs :
       (call[p].op = "auto" /\ pc[p] = "done" /\ ~result[p].threw) =>
          result[p].hasEvaluation

\* C14 (as stated): whenever evaluateProgression reports canProgress = TRUE,
\* under the default rules or the rules of a product, nextStage is a stage
\* and isValidTransition(currentStage, nextStage) holds; and whenever
\* autoProgressLead returns progressed = TRUE,
\* isValidTransition(oldStage, newStage) holds.
C14_NextStageIsValid ==
    \A p \in Procs :
       /\ (EvaluateReturned(p) /\ result[p].canProgress) =>
             /\ result[p].nextStage \in Stages
             /\ isValidTransition(result[p].currentStage, result[p].nextStage)
       /\ (call[p].op = "auto" /\ pc[p] = "done" /\ result[p].progressed) =>
             isValidTransition(result[p].oldStage, result[p].newStage)

(***************************************************************************)
(* Properties of forceTransition.                                          *)
(***************************************************************************)
\* C15: forceTransition on an existing lead, in whatever stage, with any of
\* the four stages as target and the store not failing, succeeds; its commit
\* sets the stored stage to the target and appends, in the same step, exactly
\* one audit row tagged as forced, from the stage the call read to the
\* target.
C15_ForceBypassesValidation ==
    [][\A p \in Procs :
          /\ (call[p].op = "force" /\ pc[p] # "done" /\ pc'[p] = "done"
                 /\ call[p].leadId \in Leads /\ call[p].newStage \in Stages
                 /\ result'[p].error # "store failure") =>
                /\ pc[p] = "tx_commit"
                /\ result'[p].success /\ result'[p].forced /\ ~result'[p].threw
                /\ result'[p].newStage = call[p].newStage
                /\ leads'[call[p].leadId].stage = call[p].newStage
                /\ stage_transitions' =
                      Append(stage_transitions,
                             [lead_id |-> call[p].leadId,
                              from_stage |-> result'[p].oldStage,
                              to_stage |-> call[p].newStage,
                              forced_transition |-> TRUE,
                              transition_at |-> local[p].txTime])
                /\ result'[p].oldStage = local[p].oldStage
          /\ (call[p].op = "force" /\ pc[p] = "ft_find" /\ pc'[p] = "tx_begin") =>
                local'[p].oldStage = leads[call[p].leadId].stage]_vars

\* a Customer lead has been forced back to User and the forced row is there
C15_Witness ==
    \E p \in Procs :
       /\ call[p].op = "force" /\ pc[p] = "done" /\ result[p].success
       /\ result[p].oldStage = "Customer" /\ result[p].newStage = "User"
       /\ leads["L1"].stage = "User"
       /\ \E at \in 1 .. clock :
             stage_transitions =
                <<[lead_id |-> "L1", from_stage |-> "Customer", to_stage |-> "User",
                   forced_transition |-> TRUE, transition_at |-> at]>>

(***************************************************************************)
(* Properties of getTransitionHistory.                                     *)
(***************************************************************************)
\* process p returns from getTransitionHistory in this step
HistoryReturns(p) ==
    /\ call[p].op = "history" /\ pc[p] = "th_query" /\ pc'[p] = "done"
    /\ result'[p].error # "store failure"

\* C16: getTransitionHistory(leadId) returns every audit row of the lead and
\* no other row, newest transition time first, and no step of the call
\* changes a lead, an event, an audit row or a score row.
C16_HistoryIsAReadNewestFirst ==
    [][\A p \in Procs :
          /\ HistoryReturns(p) =>
                LET rows == result'[p].rows
                    matching == {i \in DOMAIN stage_transitions :
                                   stage_transitions[i].lead_id = call[p].leadId}
                IN  /\ ~result'[p].threw
                    /\ \A i \in DOMAIN rows : rows[i].lead_id = call[p].leadId
                    /\ Range(rows) = {stage_transitions[i] : i \in matching}
                    /\ Len(rows) = Cardinality(matching)
                    /\ \A i, j \in DOMAIN rows :
                          i < j => rows[i].transition_at >= rows[j].transition_at
          /\ (call'[p].op = "history" /\ pc'[p] # pc[p]) => tables' = tables]_vars

\* a history of two rows has come back whose newest row is the one that
\* committed first
C16_Witness ==
    \E p \in Procs :
       /\ call[p].op = "history" /\ pc[p] = "done" /\ ~result[p].threw
       /\ Len(result[p].rows) = 2
       /\ Len(stage_transitions) = 2
       /\ result[p].rows[1] = stage_transitions[1]
       /\ result[p].rows[2] = stage_transitions[2]

(***************************************************************************)
(* Properties of calculateLeadScore.                                       *)
(***************************************************************************)
CalcReturned(p) == call[p].op = "calc" /\ pc[p] = "done" /\ ~result[p].threw

\* C17 (as stated): two calculateLeadScore evaluations of the same lead, whose
\* stored events no step changes, under the same scoring rules and the same
\* now return the same total_score, and every total_score is a non-negative
\* integer.
C17_ScoreIsDeterministic ==
    \A p, q \in Procs :
       (/\ CalcReturned(p) /\ CalcReturned(q)
        /\ call[p].leadId = call[q].leadId
        /\ result[p].scoring_rules_used = result[q].scoring_rules_used) =>
          /\ result[p].total_score = result[q].total_score
          /\ result[p].total_score \in Nat

\* the stored events of the lead of call p that lie in the engagement window
\* of the rules the call used
EventsInWindow(p) ==
    IF call[p].leadId \in Leads
    THEN {i \in DOMAIN engagement_events[call[p].leadId] :
            engagement_events[call[p].leadId][i].timestamp >=
               Now - result[p].scoring_rules_used.engagement_window}
    ELSE {}

LeadScoreReturned(p) == call[p].op = "lead_score" /\ pc[p] = "done"

\* C18: calculateLeadScore of a lead without events in the engagement window
\* returns total_score 0 over no events, and Lead.calculateEngagementScore
\* of the empty array returns 0 under every rules argument.
C18_EmptyHistoryScoresZero ==
    \A p \in Procs :
       /\ (CalcReturned(p) /\ EventsInWindow(p) = {}) =>
             /\ result[p].total_score = 0
             /\ result[p].event_count = 0
             /\ result[p].final_scores = <<>>
       /\ (LeadScoreReturned(p) /\ call[p].events = <<>>) =>
             result[p].total_score = 0

\* calculateLeadScore has returned for a lead all of whose events are older
\* than the window, beside calculateEngagementScore of the empty array under
\* the rules of the product
C18_Witness ==
    \E p, q \in Procs :
       /\ CalcReturned(p) /\ call[p].leadId = "L1"
       /\ engagement_events["L1"] # <<>> /\ EventsInWindow(p) = {}
       /\ LeadScoreReturned(q) /\ call[q].events = <<>>
       /\ call[q].scoringRules = "product"

\* the stored history of the lead of call p is exactly one login whose age
\* is within decay_start_hours
OneLoginWithoutDecay(p) ==
    /\ call[p].leadId \in Leads
    /\ LET rows == engagement_events[call[p].leadId]
       IN  /\ Len(rows) = 1
           /\ rows[1].event_type = "login"
           /\ Now - rows[1].timestamp <= defaultScoringRules.decay_start_hours
           /\ Now - rows[1].timestamp >= 0

\* C19 (as stated): under the default rules calculateLeadScore of a history
\* of exactly one login event within the decay-free window returns
\* total_score 10.
C19_SingleLoginScoresTen ==
    \A p \in Procs :
       (/\ CalcReturned(p)
        /\ result[p].scoring_rules_used = defaultScoringRules
        /\ OneLoginWithoutDecay(p)) =>
          result[p].total_score = 10

(***************************************************************************)
(* Properties of the per-event score.                                      *)
(***************************************************************************)
ImpactReturned(p) == call[p].op = "impact" /\ pc[p] = "done"

\* the stored rows of the lead of call p
StoredEvents(p) ==
    IF call[p].leadId \in Leads THEN engagement_events[call[p].leadId] ELSE <<>>

\* applyEngagementBonuses of events[i] with high_value_action set to hv
BonusScore(events, i, scoringRules, hv) ==
    LET event == [events[i] EXCEPT !.high_value_action = hv]
        decayedScore == applyTimeDecay(calculateEventScore(event, scoringRules),
                                       event.timestamp, scoringRules)
    IN  applyEngagementBonuses(decayedScore, event, SubSeq(events, 1, i - 1),
                               scoringRules)

\* calculateScoreImpact of the arguments of call p with high_value_action
\* set to hv
ImpactScore(p, hv) ==
    calculateScoreImpact(call[p].eventType, call[p].channel,
                         ruleArgument(call[p].scoringRules),
                         [call[p].metadata EXCEPT !.high_value_action = hv])

\* C20 (as stated): for every event of base score > 0, the score
\* applyEngagementBonuses gives it with metadata.high_value_action = true is at
\* least 1 above the score with false, the event type, channel, rules and
\* prior history being the same; likewise for calculateScoreImpact.
C20_HighValueAddsAtLeastOne ==
    \A p \in Procs :
       /\ CalcReturned(p) =>
             LET rules == result[p].scoring_rules_used
             IN  \A events \in selectEventsInWindow(StoredEvents(p), rules) :
                    \A i \in DOMAIN events :
                       calculateEventScore(events[i], rules) > 0 =>
                          BonusScore(events, i, rules, TRUE) >=
                             BonusScore(events, i, rules, FALSE) + 1
       /\ ImpactReturned(p) =>
             (impactBasePoints(call[p].eventType, call[p].channel,
                               Merge(eventDefaultRules,
                                     ruleArgument(call[p].scoringRules))) > 0 =>
                 ImpactScore(p, TRUE) >= ImpactScore(p, FALSE) + 1)

\* calculateScoreImpact of the arguments of call p as a first occurrence
FirstScore(p) ==
    calculateScoreImpact(call[p].eventType, call[p].channel,
                         ruleArgument(call[p].scoringRules),
                         [call[p].metadata EXCEPT !.repeat_engagement = FALSE,
                                                  !.engagement_count = 1])

IsRepeat(p) ==
    /\ ImpactReturned(p)
    /\ call[p].metadata.repeat_engagement
    /\ call[p].metadata.engagement_count >= 2

Distance(a, b) == IF a >= b THEN a - b ELSE b - a

\* the integer nearest to first / sqrt(count), halves upward
RoundedQuotient(first, count) ==
    CHOOSE r \in 0 .. first :
       /\ r > 0 => (2 * r - 1) * (2 * r - 1) * count <= 4 * first * first
       /\ 4 * first * first < (2 * r + 1) * (2 * r + 1) * count

\* C21: the score calculateScoreImpact gives the Nth repeat of an event,
\* N >= 2, is at most the score of the first occurrence and is within
\* max(1, round(0.1 * first)) of round(first / sqrt(N)).
C21_RepeatsDiminish ==
    \A p \in Procs :
       IsRepeat(p) =>
          LET first == FirstScore(p)
              repeatScore == result[p].total_score
              expected == RoundedQuotient(first, call[p].metadata.engagement_count)
          IN  /\ repeatScore <= first
              /\ Distance(repeatScore, expected) <= Max(1, Round(first, 10))

\* a repeat has scored strictly between 0 and the first occurrence, one off
\* the rounded quotient of the first score
C21_Witness ==
    \E p \in Procs :
       /\ IsRepeat(p)
       /\ result[p].total_score > 0
       /\ result[p].total_score < FirstScore(p)
       /\ Distance(result[p].total_score,
                   RoundedQuotient(FirstScore(p),
                                   call[p].metadata.engagement_count)) = 1

(***************************************************************************)
(* Properties of updateLeadScore.                                          *)
(***************************************************************************)
\* process p is inside updateLeadScore, on its own or at the end of
\* processEngagementEvent
InUpdateLeadScore(p) ==
    \/ pc[p] \in {"us_find", "us_calc"}
    \/ pc[p] \in InTransaction \cup {"tx_rollback"} /\ local[p].body = "score"

\* C22: updateLeadScore returns changed = false without any write when the
\* recomputed score equals the score it read; otherwise its commit sets the
\* stored score to the recomputed value and appends the one lead_scores row
\* of that value, and it returns changed = true; no other step of the call
\* writes.
C22_WritesOnlyOnChange ==
    [][\A p \in Procs :
          /\ (pc[p] = "us_calc" /\ pc'[p] = "done" /\ ~result'[p].threw) =>
                /\ ~result'[p].changed
                /\ result'[p].newScore = local[p].oldScore
                /\ result'[p].oldScore = local[p].oldScore
                /\ tables' = tables
          /\ (pc[p] = "us_calc" /\ pc'[p] = "tx_begin") =>
                local'[p].newScore # local[p].oldScore
          /\ (InUpdateLeadScore(p) /\ pc[p] = "tx_commit" /\ pc'[p] = "done") =>
                /\ result'[p].changed /\ ~result'[p].threw
                /\ result'[p].newScore # result'[p].oldScore
                /\ result'[p].newScore = local[p].newScore
                /\ leads'[local[p].lead].engagement_score = local[p].newScore
                /\ lead_scores' = Append(lead_scores,
                                         [lead_id |-> local[p].lead,
                                          score |-> local[p].newScore])
                /\ UNCHANGED <<engagement_events, stage_transitions>>
          /\ (InUpdateLeadScore(p) /\ pc'[p] # pc[p] /\ pc[p] # "tx_commit") =>
                tables' = tables]_vars

\* one updateLeadScore has changed the score and written its row, another
\* has then found nothing to change
C22_Witness ==
    \E p, q \in Procs :
       /\ call[p].op = "update" /\ pc[p] = "done" /\ result[p].changed
       /\ call[q].op = "update" /\ pc[q] = "done" /\ ~result[q].changed
       /\ ~result[q].threw
       /\ result[q].newScore = result[p].newScore
       /\ Len(lead_scores) = 1

(***************************************************************************)
(* Properties of stored events under changing scoring rules.               *)
(***************************************************************************)
\* no step changes the score_impact of an event row the store holds
ScoreImpactKept ==
    \A l \in Leads :
       \A i \in DOMAIN engagement_events[l] :
          /\ i \in DOMAIN engagement_events'[l]
          /\ engagement_events'[l][i].score_impact =
                engagement_events[l][i].score_impact

\* no two stored events of lead l share a timestamp: the order of the events
\* query is fixed
DistinctTimestamps(l) ==
    \A i, j \in DOMAIN engagement_events[l] :
       i # j => engagement_events[l][i].timestamp # engagement_events[l][j].timestamp

\* two calculateLeadScore evaluations of one lead for the configured product,
\* each under rules read from the product's row, give every stored event the
\* same contribution
ContributionsKept ==
    \A p, q \in Procs :
       (/\ CalcReturned(p) /\ CalcReturned(q)
        /\ call[p].leadId = call[q].leadId
        /\ call[p].leadId \in Leads
        /\ DistinctTimestamps(call[p].leadId)
        /\ call[p].productId = ConfiguredProduct
        /\ call[q].productId = ConfiguredProduct
        /\ result[p].scoring_rules_used # defaultScoringRules
        /\ result[q].scoring_rules_used # defaultScoringRules) =>
          result[p].final_scores = result[q].final_scores

\* C23 (as stated): the stored score_impact of an event is never modified after
\* the event is created, and after the scoring rules of a product change and
\* the cache is cleared a recomputation over the unchanged event history gives
\* every stored event the same contribution as before the change.
C23_EventsNeverRescored == [][ScoreImpactKept]_vars /\ []ContributionsKept

(***************************************************************************)
(* Properties of processEngagementEvent.                                   *)
(***************************************************************************)
\* process p ran processEngagementEvent, the only call so far, and it threw
OnlyEventCallThrew(p) ==
    /\ opsStarted = 1
    /\ call[p].op = "event"
    /\ pc[p] = "done"
    /\ result[p].threw

\* the event of the call of p is a row of engagement_events
EventStored(p) ==
    /\ call[p].leadId \in Leads
    /\ \E i \in DOMAIN engagement_events[call[p].leadId] :
          LET row == engagement_events[call[p].leadId][i]
          IN  /\ row.event_type = call[p].eventData.event_type
              /\ row.timestamp = call[p].eventData.timestamp

\* C24 (as stated): when processEngagementEvent throws, at whatever step, no
\* engagement event has been stored and the score history of the lead is as it
\* was before the call (here: the call is the only one that ran, the event is
\* not a stored row and lead_scores is still empty).
C24_FailureRollsBackEverything ==
    \A p \in Procs :
       OnlyEventCallThrew(p) => (~EventStored(p) /\ lead_scores = <<>>)

(***************************************************************************)
(* Properties of the routes that write a lead.                             *)
(***************************************************************************)
\* the POST /leads/:id/stage request of process p was answered with success
PostStageApplied(p) ==
    /\ call[p].op = "post_stage"
    /\ pc[p] = "done"
    /\ result[p].success

\* C25 (as stated): a stage change requested through POST /leads/:id/stage is
\* applied only if it is a valid edge of the transition graph from the stage
\* the lead had when the request read it.
C25_RouteAppliesOnlyValidEdges ==
    \A p \in Procs :
       PostStageApplied(p) =>
          isValidTransition(result[p].oldStage, result[p].newStage)

(***************************************************************************)
(* Properties of the adjacency table.                                      *)
(***************************************************************************)
\* the five edges of the specified graph
SpecifiedEdges ==
    {<<"User", "Engaged_Lead">>, <<"Engaged_Lead", "Qualified_Lead">>,
     <<"Engaged_Lead", "User">>, <<"Qualified_Lead", "Customer">>,
     <<"Qualified_Lead", "Engaged_Lead">>}

\* what the two functions answer agrees with the five edges
AnswersTheGraph(p) ==
    /\ (call[p].op = "is_valid" /\ pc[p] = "done" /\ ~result[p].threw) =>
          (result[p].valid <=> <<call[p].fromStage, call[p].newStage>> \in SpecifiedEdges)
    /\ (call[p].op = "next_stages" /\ pc[p] = "done") =>
          \A toStage \in StageInputs :
             toStage \in Range(result[p].stages) <=>
                <<call[p].fromStage, toStage>> \in SpecifiedEdges

\* C26 (as stated): isValidTransition(from, to) returns true for precisely the
\* five specified pairs and false for every other pair, pairs with an unknown
\* stage included, and getNextStages(from) contains to if and only if the pair
\* is one of the five.
C26_TableIsTheGraph ==
    \A p \in Procs :
       /\ (call[p].op = "is_valid" /\ pc[p] = "done") => ~result[p].threw
       /\ AnswersTheGraph(p)

\* for the four stages and a name that is no property of an object the two
\* functions answer the five edges
TableOverStageNames == \A p \in Procs : AnswersTheGraph(p)

(***************************************************************************)
(* Properties of the audit trail under every writer of leads.stage.        *)
(***************************************************************************)
\* the number of rows of stage_transitions of lead l among rows
AuditCount(rows, l) == Cardinality({i \in DOMAIN rows : rows[i].lead_id = l})

\* a step that changes the stored stage of a lead appends exactly one audit
\* row of that lead
StageChangeWritesOneRow ==
    \A l \in Leads :
       leads'[l].stage # leads[l].stage =>
          AuditCount(stage_transitions', l) = AuditCount(stage_transitions, l) + 1

\* a step that leaves the stored stage of a lead appends no audit row of it
NoChangeWritesNoRow ==
    \A l \in Leads :
       leads'[l].stage = leads[l].stage =>
          AuditCount(stage_transitions', l) = AuditCount(stage_transitions, l)

\* every change of a stored stage is audited, whatever else is
StageChangeIsAudited == [][StageChangeWritesOneRow]_vars

\* C27 (as stated): every change of the stored stage of a lead, by whatever
\* operation, comes with exactly one audit row, so that the number of audit
\* rows of a lead equals the number of times its stored stage has changed
\* (both start at zero: the two grow together in every step).
C27_AuditCountEqualsChanges ==
    [][StageChangeWritesOneRow /\ NoChangeWritesNoRow]_vars

\* C28 (as stated): every row of stage_transitions, whichever operation wrote
\* it, has from_stage different from to_stage.
C28_NoSelfTransition ==
    \A i \in DOMAIN stage_transitions :
       stage_transitions[i].from_stage # stage_transitions[i].to_stage

\* a stage change applied through Lead.progressStage is a change
ProgressStageChangesStage ==
    \A p \in Procs :
       PostStageApplied(p) => result[p].oldStage # result[p].newStage

(***************************************************************************)
(* Properties of getScoringRules.                                          *)
(***************************************************************************)
\* the query of getScoringRules, issued by process p, rejects in this step
RulesQueryFails(p) ==
    /\ pc[p] = "cs_rules"
    /\ pc'[p] # "cs_rules"
    /\ failures' = failures + 1

\* calculateLeadScore of process p returns in this step
CalcReturns(p) ==
    /\ pc[p] = "cs_events"
    /\ pc'[p] = "done"
    /\ ~result'[p].threw

\* C29: when the query for the scoring rules of a product rejects,
\* getScoringRules hands the default rules to calculateLeadScore without
\* throwing and leaves the cache as it was, and calculateLeadScore goes on to
\* its events query and returns the total under the rules it was handed.
C29_RulesFailureFallsBack ==
    [][\A p \in Procs :
          /\ RulesQueryFails(p) =>
                /\ pc'[p] = "cs_events"
                /\ local'[p].scoringRules = defaultScoringRules
                /\ productConfigs' = productConfigs
                /\ result'[p] = result[p]
          /\ CalcReturns(p) =>
                /\ result'[p].scoring_rules_used = local[p].scoringRules
                /\ local[p].lead \in Leads =>
                      result'[p].total_score \in
                         calculateLeadScore(engagement_events[local[p].lead],
                                            local[p].scoringRules)]_vars

\* calculateLeadScore for the configured product has returned a total under
\* the default rules after the rules query failed, and the cache holds nothing
\* for the product
C29_Witness ==
    \E p \in Procs :
       /\ CalcReturned(p)
       /\ call[p].leadId \in Leads
       /\ call[p].productId = ConfiguredProduct
       /\ failures = 1
       /\ result[p].scoring_rules_used = defaultScoringRules
       /\ result[p].total_score > 0
       /\ ~productConfigs[ConfiguredProduct].has
       /\ product_configs[ConfiguredProduct] = productScoringRules

\* process p ran processEngagementEvent, the only call so far, and it returned
OnlyEventCallReturned(p) ==
    /\ opsStarted = 1
    /\ call[p].op = "event"
    /\ pc[p] = "done"
    /\ ~result[p].threw

\* C30 (as stated): processing one engagement event writes the score of the
\* lead once and appends exactly one score-history row, and the score written
\* is the total recomputed over the event history with the new event in it.
C30_OneScoreUpdatePerEvent ==
    \A p \in Procs :
       OnlyEventCallReturned(p) =>
          /\ Len(lead_scores) = 1
          /\ lead_scores[1].lead_id = call[p].leadId
          /\ lead_scores[1].score \in
                calculateLeadScore(engagement_events[call[p].leadId],
                                   defaultScoringRules)

\* the first score the call writes is a total over the history with the new
\* event in it
FirstWriteCountsTheEvent ==
    \A p \in Procs :
       (OnlyEventCallReturned(p) /\ EventStored(p)) =>
          /\ Len(lead_scores) >= 1
          /\ lead_scores[1].score \in
                calculateLeadScore(engagement_events[call[p].leadId],
                                   defaultScoringRules)

(***************************************************************************)
(* Properties of the stored engagement_score.                              *)
(***************************************************************************)
\* C31: in every reachable state the stored engagement_score of every lead is
\* an integer >= 0, whatever updateLeadScore, processEngagementEvent,
\* processAndUpdateLeadScore and updateEngagementScore calls have run.
C31_ScoreIsNatural ==
    \A l \in Leads : leads[l].engagement_score \in Nat

\* processAndUpdateLeadScore with an impact that takes the score below zero
\* has been refused by the store and rolled back, and one with a fractional
\* impact cannot have stored its event
C31_Witness ==
    \E p \in Procs :
       /\ call[p].op = "increment"
       /\ call[p].eventData.score_impact < 0
       /\ pc[p] = "done"
       /\ result[p].threw
       /\ result[p].error = "check constraint"
       /\ leads[call[p].leadId].engagement_score < 20

(***************************************************************************)
(* Properties of the time window condition.                                *)
(***************************************************************************)
\* the events of lead l whose timestamp lies within the trailing window
InWindow(l, hours) ==
    {i \in DOMAIN engagement_events[l] :
        engagement_events[l][i].timestamp >= Now - hours}

\* evaluateProgression has returned for a rule with a time window and a
\* configured min_events: the window condition was reported met exactly when
\* the events in the window number at least min_events, a min_events of 0
\* standing for zeroStandsFor
WindowMetIffCount(p, zeroStandsFor) ==
    LET rules == progressionRules(call[p].productConfig)
        r == result[p]
    IN  (/\ EvaluateReturned(p)
         /\ r.currentStage \in DOMAIN rules
         /\ {"time_window_hours", "min_events"}
               \subseteq DOMAIN rules[r.currentStage].conditions) =>
           LET conditions == rules[r.currentStage].conditions
           IN  ("time_window_hours" \notin Range(r.failedConditions))
                  <=> Cardinality(InWindow(call[p].leadId,
                                           conditions.time_window_hours))
                         >= (IF conditions.min_events = 0 THEN zeroStandsFor
                             ELSE conditions.min_events)

\* C32: the time_window_hours condition is met if and only if the number of
\* the lead's events within the trailing window is >= min_events, for every
\* configured min_events, 0 included.
C32_WindowMetIffEnoughEvents ==
    \A p \in Procs : WindowMetIffCount(p, 0)

\* what the code computes: a configured min_events of 0 counts as 1
WindowMetIffAtLeastOne ==
    \A p \in Procs : WindowMetIffCount(p, 1)

(***************************************************************************)
(* Properties of the repeat-type decay.                                    *)
(***************************************************************************)
\* N: the events before events[i] that share its event_type
PriorSameType(events, i) ==
    Cardinality({k \in 1 .. i - 1 : events[k].event_type = events[i].event_type})

\* the score of events[i] when the bonus multiplier is scaled by
\* repeat_engagement_decay^exponent
ScoreUnderDecay(events, i, scoringRules, exponent) ==
    LET event == events[i]
        decayedScore == applyTimeDecay(calculateEventScore(event, scoringRules),
                                       event.timestamp, scoringRules)
        additive == additiveBonus(event, SubSeq(events, 1, i - 1), scoringRules)
    IN  RoundShift(TimesPow(Digits(decayedScore * additive),
                            scoringRules.repeat_engagement_decay, exponent),
                   exponent + 1)

\* C33: the score applyEngagementBonuses gives an event with N >= 1 prior
\* events of its type is the one whose multiplier is scaled by
\* repeat_engagement_decay^N, and with N = 0 no decay is applied.
C33_DecayExponentIsPriorCount ==
    \A p \in Procs :
       CalcReturned(p) =>
          LET rules == result[p].scoring_rules_used
          IN  \A events \in selectEventsInWindow(StoredEvents(p), rules) :
                 \A i \in DOMAIN events :
                    finalScore(events, i, rules) =
                       ScoreUnderDecay(events, i, rules, PriorSameType(events, i))

\* what the code computes: the exponent is N - 1, and 0 for N <= 1
DecayExponentIsOneShort ==
    \A p \in Procs :
       CalcReturned(p) =>
          LET rules == result[p].scoring_rules_used
          IN  \A events \in selectEventsInWindow(StoredEvents(p), rules) :
                 \A i \in DOMAIN events :
                    finalScore(events, i, rules) =
                       ScoreUnderDecay(events, i, rules,
                                       Max(PriorSameType(events, i) - 1, 0))

(***************************************************************************)
(* Properties of getRecommendedStage and of the scoring operations on the  *)
(* stage.                                                                  *)
(***************************************************************************)
RecommendReturned(p) == call[p].op = "recommend" /\ pc[p] = "done"

\* position of a stage along User < Engaged_Lead < Qualified_Lead < Customer
StagePosition(stage) ==
    CHOOSE i \in 1 .. 4 :
       <<"User", "Engaged_Lead", "Qualified_Lead", "Customer">>[i] = stage

\* the stage returned for (score, rules) is the band of the score
ThresholdClassifier ==
    \A p \in Procs :
       (/\ RecommendReturned(p)
        /\ call[p].thresholds.customer_threshold
              > call[p].thresholds.qualified_lead_threshold
        /\ call[p].thresholds.qualified_lead_threshold
              > call[p].thresholds.engaged_lead_threshold) =>
          LET score == call[p].score
              engaged == call[p].thresholds.engaged_lead_threshold
              qualified == call[p].thresholds.qualified_lead_threshold
              customer == call[p].thresholds.customer_threshold
              stage == result[p].recommended_stage
          IN  /\ stage = "Customer" <=> score >= customer
              /\ stage = "Qualified_Lead" <=> (qualified <= score /\ score < customer)
              /\ stage = "Engaged_Lead" <=> (engaged <= score /\ score < qualified)
              /\ stage = "User" <=> score < engaged

\* a call that follows another with the same rules and a score at least as
\* high returns a stage at least as high, the same stage for the same score,
\* and the call writes nothing
MonotoneAndPure ==
    \A p \in Procs :
       (RecommendReturned(p)' /\ opsStarted' # opsStarted) =>
          /\ tables' = tables
          /\ <<product_configs, productConfigs, pool>>' = <<product_configs, productConfigs, pool>>
          /\ (/\ RecommendReturned(p)
              /\ call'[p].thresholds = call[p].thresholds
              /\ call'[p].score >= call[p].score) =>
                /\ StagePosition(result'[p].recommended_stage)
                      >= StagePosition(result[p].recommended_stage)
                /\ call'[p].score = call[p].score =>
                      result'[p].recommended_stage = result[p].recommended_stage

\* C34: getRecommendedStage is a pure threshold classifier: for thresholds
\* customer > qualified > engaged it returns the band of the score, its
\* result depends only on (score, rules), and it is monotonically
\* non-decreasing in the score.
C34_RecommendedStageIsClassifier ==
    []ThresholdClassifier /\ [][MonotoneAndPure]_vars

\* the second of two calls has classified a score equal to the customer
\* threshold of the default rules as Customer
C34_Witness ==
    /\ RecommendReturned(1) /\ opsStarted = 2
    /\ call[1].thresholds = defaultScoringRules
    /\ call[1].score = 300
    /\ result[1].recommended_stage = "Customer"

ScoringEngineOps == {"update", "event", "batch_scores", "qualification"}

\* process p takes the step
Acts(p) ==
    <<pc[p], call[p], local[p], txn[p], result[p]>>'
       # <<pc[p], call[p], local[p], txn[p], result[p]>>

\* C35: no step of updateLeadScore, processEngagementEvent, batchUpdateScores
\* or checkQualificationStatus changes the stored stage of a lead or the
\* stage audit trail.
C35_ScoringLeavesStage ==
    [][\A p \in Procs :
          (Acts(p) /\ call'[p].op \in ScoringEngineOps) =>
             /\ \A l \in Leads : leads'[l].stage = leads[l].stage
             /\ stage_transitions' = stage_transitions]_vars

\* updateLeadScore has committed a new score whose recommended stage is not
\* the stage of the lead, checkQualificationStatus has reported a recommended
\* stage other than the current one, and the lead is in the stage it had
C35_Witness ==
    \E p, q \in Procs :
       /\ call[p].op = "update" /\ pc[p] = "done" /\ result[p].changed
       /\ getRecommendedStage(result[p].newScore, defaultScoringRules)
             # leads[call[p].leadId].stage
       /\ call[q].op = "qualification" /\ pc[q] = "done" /\ ~result[q].threw
       /\ result[q].leadId = call[p].leadId
       /\ result[q].recommended_stage # result[q].currentStage
       /\ result[q].currentStage = leads[call[p].leadId].stage
       /\ stage_transitions = <<>>

(***************************************************************************)
(* Properties of the audit trail under concurrent callers.                 *)
(***************************************************************************)
\* the audit rows of lead l, in commit order
AuditRows(rows, l) ==
    LET OfLead(row) == row.lead_id = l
    IN  SelectSeq(rows, OfLead)

\* each audit row of a lead starts where the previous one ended, and the
\* last one ends at the stored stage
AuditChain ==
    \A l \in Leads :
       LET rows == AuditRows(stage_transitions, l)
       IN  /\ \A i \in 2 .. Len(rows) : rows[i].from_stage = rows[i - 1].to_stage
           /\ rows # <<>> => rows[Len(rows)].to_stage = leads[l].stage

\* the first audit row of a lead starts at the stage the lead had until then
FirstRowFromInitialStage ==
    \A l \in Leads :
       (AuditRows(stage_transitions, l) = <<>>
           /\ AuditRows(stage_transitions', l) # <<>>) =>
          AuditRows(stage_transitions', l)[1].from_stage = leads[l].stage

\* C36: under any interleaving of executeTransition, autoProgressLead and
\* forceTransition calls the audit rows of a lead form a chain in commit
\* order: the first from_stage is the initial stage, each later from_stage is
\* the previous to_stage, and the last to_stage is the stored stage.
C36_AuditTrailIsChain ==
    []AuditChain /\ [][FirstRowFromInitialStage]_vars

\* the same for behaviours in which a single call runs
AuditChainOfOneCall ==
    [](opsStarted <= 1 => AuditChain)

\* the edges of the default progression rules
ForwardEdges ==
    {<<"User", "Engaged_Lead">>, <<"Engaged_Lead", "Qualified_Lead">>,
     <<"Qualified_Lead", "Customer">>}

\* autoProgressLead, alone or inside batchAutoProgress, commits in this step
AutoCommits(p) ==
    /\ call[p].op \in {"auto", "batch"}
    /\ call[p].productConfig = "null"
    /\ Succeeds(p)

\* C37: with the default rules every stage change committed by
\* autoProgressLead or batchAutoProgress is one of the three forward edges and
\* starts from the stage on which the eligibility evaluation was made, under
\* any interleaving with other stage changes of the same lead.
C37_AutoProgressOnlyForward ==
    [][\A p \in Procs :
          AutoCommits(p) =>
             LET l == local[p].lead
             IN  leads'[l].stage # leads[l].stage =>
                    /\ <<leads[l].stage, leads'[l].stage>> \in ForwardEdges
                    /\ leads[l].stage = local[p].evaluation.currentStage]_vars

\* the same for an automatic progression that no other call overlaps
AutoProgressAloneOnlyForward ==
    [][\A p \in Procs :
          (AutoCommits(p) /\ \A q \in Procs \ {p} : Free(q) /\ opsStarted = 1) =>
             LET l == local[p].lead
             IN  leads'[l].stage # leads[l].stage =>
                    /\ <<leads[l].stage, leads'[l].stage>> \in ForwardEdges
                    /\ leads[l].stage = local[p].evaluation.currentStage]_vars

(***************************************************************************)
(* Properties of successive automatic progressions.                        *)
(***************************************************************************)
\* the stage after k calls on a lead that starts in User
StageAfterCalls(k) ==
    IF k = 0 THEN "User"
    ELSE IF k = 1 THEN "Engaged_Lead"
    ELSE IF k = 2 THEN "Qualified_Lead"
    ELSE "Customer"

InitialScore(l) ==
    LET Older(e) == e.timestamp < Now
        before == SelectSeq(engagement_events[l], Older)
    IN  (CHOOSE row \in InitialRows : row.events = before).engagement_score

RECURSIVE SumScoreImpact(_)
SumScoreImpact(events) ==
    IF events = <<>> THEN 0
    ELSE Head(events).score_impact + SumScoreImpact(Tail(events))

\* the events the calls have stored for lead l
StoredByCalls(l) ==
    LET AtNow(e) == e.timestamp = Now
    IN  SelectSeq(engagement_events[l], AtNow)

\* every call of the behaviour is a processAndUpdateLeadScore call on L1 that
\* has committed and returned
IncrementsCommitted(n) ==
    /\ opsStarted = n
    /\ Cardinality({p \in Procs : call[p].op = "increment"}) = n
    /\ \A p \in Procs :
          call[p].op = "increment" => pc[p] = "done" /\ ~result[p].threw

\* the stored score is the initial score plus the impacts of the stored
\* events, and the last score-history row carries it
ScoreIsSumOfImpacts ==
    /\ leads["L1"].engagement_score
          = InitialScore("L1") + SumScoreImpact(StoredByCalls("L1"))
    /\ lead_scores # <<>>
    /\ Last(lead_scores).score = leads["L1"].engagement_score

\* C39: after processAndUpdateLeadScore calls on one lead, run in any
\* interleaving, have all committed, the engagement_score is the initial
\* score plus the sum of the score_impact of every event they stored, and the
\* last score-history record equals the stored score.
C39_NoLostIncrement ==
    \A n \in 1 .. MaxOps : IncrementsCommitted(n) => ScoreIsSumOfImpacts

\* the same for a single call
OneIncrementIsAdded ==
    IncrementsCommitted(1) => ScoreIsSumOfImpacts

(***************************************************************************)
(* Properties of the transaction helper.                                   *)
(***************************************************************************)
\* the helper of call p is between BEGIN and client.release()
HelperRuns(p) == pc[p] \in (InTransaction \ {"tx_begin"}) \cup {"tx_rollback"}

\* how often statement s was issued on a client
Issued(client, s) ==
    Cardinality({i \in DOMAIN client.statements : client.statements[i] = s})

\* a client is held while its helper runs; once the helper is over it was
\* released exactly once, and after a BEGIN that went through the helper
\* either committed, without any ROLLBACK, or issued one ROLLBACK
ClientClosedOnce ==
    \A p \in Procs :
       LET client == pool[p]
           rollbacks == Issued(client, "ROLLBACK") + Issued(client, "ROLLBACK failed")
       IN  IF HelperRuns(p)
           THEN /\ client.released = 0
                /\ Issued(client, "COMMIT") = 0
                /\ rollbacks = 0
           ELSE client # NoClient =>
                   /\ client.released = 1
                   /\ Issued(client, "COMMIT") + rollbacks = 1

\* the step in which the helper of p ends: COMMIT is not issued from the
\* catch block, a helper that has not committed changes no table and throws,
\* and one that has committed does not throw
HelperEnds ==
    \A p \in Procs :
       (HelperRuns(p) /\ ~HelperRuns(p)') =>
          /\ pc[p] = "tx_rollback" =>
                Issued(pool'[p], "COMMIT") + Issued(pool'[p], "COMMIT failed")
                   = Issued(pool[p], "COMMIT") + Issued(pool[p], "COMMIT failed")
          /\ Issued(pool'[p], "COMMIT") = 0 =>
                /\ UNCHANGED tables
                /\ pc'[p] = "done"
                /\ result'[p].threw
          /\ Issued(pool'[p], "COMMIT") = 1 =>
                /\ pc[p] = "tx_commit"
                /\ pc'[p] = "done"
                /\ ~result'[p].threw

\* C40: after BEGIN the helper issues exactly one of COMMIT, when the
\* callback returned, or ROLLBACK, when the callback or COMMIT threw, never
\* COMMIT after a failed callback; it releases the client exactly once on
\* every path, a failing ROLLBACK included, and throws to its caller whenever
\* the transaction did not commit.
C40_TransactionClosedOnce ==
    []ClientClosedOnce /\ [][HelperEnds]_vars

\* a callback failed on the CHECK constraint of the stage, ROLLBACK failed as
\* well, the client was released once and the caller got the error of the
\* ROLLBACK; another helper issued ROLLBACK after its COMMIT was rejected
C40_Witness ==
    \E p, q \in Procs :
       /\ pool[p] = [statements |-> <<"BEGIN", "ROLLBACK failed">>, released |-> 1]
       /\ pc[p] = "done" /\ result[p].error = "rollback failure"
       /\ pool[q] = [statements |-> <<"BEGIN", "COMMIT failed", "ROLLBACK">>,
                     released |-> 1]
       /\ pc[q] = "done" /\ result[q].error = "store failure"

=============================================================================
